---------------------------- MODULE Spec2Model ----------------------------
(***************************************************************************)
(* A model of the REST layer of iceberg-rest-catalog: the gin handlers of  *)
(* package handlers (namespaces, tables, rename, sidecar, transaction),    *)
(* the ErrorModel table and the namespace codec, running against a         *)
(* catalog.TransactionCatalog.                                             *)
(*                                                                         *)
(* Two snapshots of package handlers are in the tree: tables.go and        *)
(* namespaces.go (the handler holds only a catalog) and models.go,         *)
(* part_007 and transaction.go (the handler also holds followers).  They   *)
(* declare the same type and cannot be linked together; the variable       *)
(* build says which of them the running server was built from.             *)
(*                                                                         *)
(* The catalog behind the handlers is a Go module of its own               *)
(* (github.com/apache/iceberg-go/catalog); the Cat* operators model it     *)
(* from its description in the specification and from the integration      *)
(* tests.  Everything else is translated from the handlers' code.          *)
(***************************************************************************)
EXTENDS Integers, Sequences, FiniteSets, TLC

VARIABLES
    build,      \* which snapshot of package handlers is linked
    cat,        \* the primary catalog: namespaces, tables, sidecar entries
    fol,        \* what the follower catalog has received, in order
    committed,  \* the batches the primary catalog has committed, in order
    req,        \* per request slot: the request being handled and its position
    resp,       \* per request slot: what the handler wrote to gin's ResponseWriter
    calls,      \* per request slot: the catalog methods the handler invoked
    pre,        \* per request slot: the catalog when the request arrived
    nreq        \* requests accepted so far

vars == <<build, cat, fol, committed, req, resp, calls, pre, nreq>>

(***************************************************************************)
(* Bounds of the model.                                                    *)
(***************************************************************************)
MaxRequests == 2
MaxBatch == 2
\* the components of a namespace and the characters of a flat string that
\* SpecCodec draws
MaxParts == 2
MaxFlat == 3

(***************************************************************************)
(* Strings.  A Go string is a sequence of characters; the separator byte   *)
(* 0x1F is the character SEP.                                              *)
(***************************************************************************)
SEP == "US"

namespaceSeparator == <<SEP>>

RECURSIVE SplitFrom(_, _, _)
SplitFrom(s, i, cur) ==
    IF i > Len(s) THEN <<cur>>
    ELSE IF s[i] = namespaceSeparator[1]
         THEN <<cur>> \o SplitFrom(s, i + 1, <<>>)
         ELSE SplitFrom(s, i + 1, Append(cur, s[i]))

\* a decoder that takes the whole string for one component
SplitWhole(s) == <<s>>

\* strings.Split(s, namespaceSeparator)
Split(s) == SplitFrom(s, 1, <<>>)

RECURSIVE Join(_)
\* strings.Join(parts, namespaceSeparator)
Join(parts) ==
    IF Len(parts) = 0 THEN <<>>
    ELSE IF Len(parts) = 1 THEN parts[1]
         ELSE parts[1] \o namespaceSeparator \o Join(Tail(parts))

(***************************************************************************)
(* HTTP status codes (net/http).                                           *)
(***************************************************************************)
StatusOK == 200
StatusAccepted == 202
StatusNoContent == 204
StatusBadRequest == 400
StatusNotFound == 404
StatusConflict == 409
StatusUnprocessableEntity == 422
StatusInternalServerError == 500
StatusNotImplemented == 501

(***************************************************************************)
(* The ErrorModel constants.                                               *)
(***************************************************************************)
ErrInternalServerError ==
    [message |-> "Internal Server Error", type |-> "InternalServerError",
     code |-> StatusInternalServerError]

ErrBadRequest ==
    [message |-> "Malformed request", type |-> "BadRequestException",
     code |-> StatusBadRequest]

ErrNamespaceNotFound ==
    [message |-> "The given namespace does not exist",
     type |-> "NoSuchNamespaceException", code |-> StatusNotFound]

ErrNamespaceAlreadyExists ==
    [message |-> "The given namespace already exists",
     type |-> "AlreadyExistsException", code |-> StatusConflict]

ErrNamespaceNotEmpty ==
    [message |-> "The given namespace is not empty",
     type |-> "NamespaceNotEmptyException", code |-> StatusConflict]

ErrUnprocessableEntityDuplicateKey ==
    [message |-> "The request cannot be processed as there is a key present multiple times",
     type |-> "UnprocessableEntityException", code |-> StatusUnprocessableEntity]

ErrNotImplemented ==
    [message |-> "Not Implemented", type |-> "NotImplementedException",
     code |-> StatusNotImplemented]

ErrTableAlreadyExists ==
    [message |-> "The given table already exists",
     type |-> "AlreadyExistsException", code |-> StatusConflict]

ErrTableNotFound ==
    [message |-> "The given table does not exist",
     type |-> "NoSuchTableException", code |-> StatusNotFound]

(***************************************************************************)
(* gin's ResponseWriter.  status 0: nothing written yet.  The first        *)
(* c.JSON sets the status and writes a body; a later one cannot change     *)
(* the status any more and appends its body.  c.Status sets the status     *)
(* of a response that has no body yet.                                     *)
(***************************************************************************)
NoResponse == [status |-> 0, bodies |-> <<>>]

\* a body is either an ErrorResponse{Error: e} or a payload
ErrorResponse(e) == [kind |-> "error", error |-> e, data |-> <<>>]
Payload(d) == [kind |-> "data", error |-> [message |-> "", type |-> "", code |-> 0], data |-> d]

JSON(w, code, body) ==
    IF w.bodies # <<>>
    THEN [w EXCEPT !.bodies = Append(@, body)]
    ELSE [status |-> code, bodies |-> <<body>>]

Status(w, code) ==
    IF w.bodies # <<>> THEN w ELSE [w EXCEPT !.status = code]


(***************************************************************************)
(* Errors.  A Go error is what errors.Is can tell of it (the sentinels of  *)
(* package catalog it wraps) and its text.                                 *)
(***************************************************************************)
ErrNoSuchNamespace == "ErrNoSuchNamespace"
ErrNamespaceAlreadyExistsCat == "ErrNamespaceAlreadyExists"
ErrNamespaceNotEmptyCat == "ErrNamespaceNotEmpty"
ErrNoSuchTable == "ErrNoSuchTable"
ErrTableAlreadyExistsCat == "ErrTableAlreadyExists"

Sentinels ==
    {ErrNoSuchNamespace, ErrNamespaceAlreadyExistsCat, ErrNamespaceNotEmptyCat,
     ErrNoSuchTable, ErrTableAlreadyExistsCat}

NoErr == [nil |-> TRUE, is |-> {}, text |-> ""]
Err(S, t) == [nil |-> FALSE, is |-> S, text |-> t]

\* errors.Is(err, sentinel)
Is(err, sentinel) == sentinel \in err.is

(***************************************************************************)
(* Finite maps.                                                            *)
(***************************************************************************)
Put(f, k, v) == [x \in (DOMAIN f) \cup {k} |-> IF x = k THEN v ELSE f[x]]
Del(f, k) == [x \in (DOMAIN f) \ {k} |-> f[x]]
EmptyMap == [x \in {} |-> 0]

\* append(namespace, name)
Ident(ns, name) == Append(ns, name)
NamespaceOf(ident) == SubSeq(ident, 1, Len(ident) - 1)
IsPrefix(a, b) == Len(a) < Len(b) /\ SubSeq(b, 1, Len(a)) = a

(***************************************************************************)
(* The catalog (catalog.TransactionCatalog), from the specification:       *)
(* namespaces with properties, tables with metadata, sidecar entries.      *)
(* Each operation returns the error, the catalog afterwards and a value.   *)
(***************************************************************************)
Ret(e, c, v) == [err |-> e, cat |-> c, val |-> v]

NewMetadata == [schemas |-> {0}, cur |-> 0, ver |-> 0]

CatCreateNamespace(c, ns, props) ==
    IF ns \in DOMAIN c.ns
    THEN Ret(Err({ErrNamespaceAlreadyExistsCat}, "namespace already exists"), c, <<>>)
    ELSE Ret(NoErr, [c EXCEPT !.ns = Put(@, ns, props)], <<>>)

HasChildren(c, ns) ==
    \/ \E t \in DOMAIN c.tbl : NamespaceOf(t) = ns
    \/ \E n \in DOMAIN c.ns : IsPrefix(ns, n)

CatDropNamespace(c, ns) ==
    IF ns \notin DOMAIN c.ns
    THEN Ret(Err({ErrNoSuchNamespace}, "no such namespace"), c, <<>>)
    ELSE IF HasChildren(c, ns)
         THEN Ret(Err({ErrNamespaceNotEmptyCat}, "namespace not empty"), c, <<>>)
         ELSE Ret(NoErr, [c EXCEPT !.ns = Del(@, ns)], <<>>)

CatCheckNamespaceExists(c, ns) == Ret(NoErr, c, ns \in DOMAIN c.ns)

CatLoadNamespaceProperties(c, ns) ==
    IF ns \notin DOMAIN c.ns
    THEN Ret(Err({ErrNoSuchNamespace}, "no such namespace"), c, EmptyMap)
    ELSE Ret(NoErr, c, c.ns[ns])

\* the elements of a list, as a set
Range(s) == {s[i] : i \in DOMAIN s}

CatUpdateNamespaceProperties(c, ns, removals, updates) ==
    IF ns \notin DOMAIN c.ns
    THEN Ret(Err({ErrNoSuchNamespace}, "no such namespace"), c,
             [Updated |-> {}, Removed |-> {}, Missing |-> {}])
    ELSE LET old == c.ns[ns]
             kept == [k \in (DOMAIN old) \ Range(removals) |-> old[k]]
             new == [k \in (DOMAIN kept) \cup (DOMAIN updates) |->
                        IF k \in DOMAIN updates THEN updates[k] ELSE kept[k]]
         IN Ret(NoErr, [c EXCEPT !.ns[ns] = new],
                [Updated |-> DOMAIN updates,
                 Removed |-> Range(removals) \cap DOMAIN old,
                 Missing |-> Range(removals) \ DOMAIN old])

\* parent = <<>> is Go's nil parent: every namespace
CatListNamespaces(c, parent) ==
    IF parent # <<>> /\ parent \notin DOMAIN c.ns
    THEN Ret(Err({ErrNoSuchNamespace}, "no such namespace"), c, {})
    ELSE Ret(NoErr, c, {n \in DOMAIN c.ns : parent = <<>> \/ IsPrefix(parent, n)})

CatCreateTable(c, ident) ==
    IF NamespaceOf(ident) \notin DOMAIN c.ns
    THEN Ret(Err({ErrNoSuchNamespace}, "no such namespace"), c, <<>>)
    ELSE IF ident \in DOMAIN c.tbl
         THEN Ret(Err({ErrTableAlreadyExistsCat}, "table already exists"), c, <<>>)
         ELSE Ret(NoErr, [c EXCEPT !.tbl = Put(@, ident, NewMetadata)],
                  [ident |-> ident, meta |-> NewMetadata])

CatLoadTable(c, ident) ==
    IF NamespaceOf(ident) \notin DOMAIN c.ns
    THEN Ret(Err({ErrNoSuchNamespace}, "no such namespace"), c, <<>>)
    ELSE IF ident \notin DOMAIN c.tbl
         THEN Ret(Err({ErrNoSuchTable}, "no such table"), c, <<>>)
         ELSE Ret(NoErr, c, [ident |-> ident, meta |-> c.tbl[ident]])

CatCheckTableExists(c, ident) == Ret(NoErr, c, ident \in DOMAIN c.tbl)

CatDropTable(c, ident) ==
    IF NamespaceOf(ident) \notin DOMAIN c.ns
    THEN Ret(Err({ErrNoSuchNamespace}, "no such namespace"), c, <<>>)
    ELSE IF ident \notin DOMAIN c.tbl
         THEN Ret(Err({ErrNoSuchTable}, "no such table"), c, <<>>)
         ELSE Ret(NoErr, [c EXCEPT !.tbl = Del(@, ident)], <<>>)

CatRenameTable(c, from, to) ==
    IF NamespaceOf(from) \notin DOMAIN c.ns \/ NamespaceOf(to) \notin DOMAIN c.ns
    THEN Ret(Err({ErrNoSuchNamespace}, "no such namespace"), c, <<>>)
    ELSE IF from \notin DOMAIN c.tbl
         THEN Ret(Err({ErrNoSuchTable}, "no such table"), c, <<>>)
         ELSE IF to \in DOMAIN c.tbl
              THEN Ret(Err({ErrTableAlreadyExistsCat}, "table already exists"), c, <<>>)
              ELSE Ret(NoErr, [c EXCEPT !.tbl = Put(Del(@, from), to, c.tbl[from])],
                       [ident |-> to, meta |-> c.tbl[from]])

(***************************************************************************)
(* Requirements and updates of a commit.                                   *)
(***************************************************************************)
AssertCurrentSchemaID(n) == [type |-> "assert-current-schema-id", id |-> n]
AddSchemaUpdate(n) == [action |-> "add-schema", id |-> n]
SetCurrentSchemaUpdate(n) == [action |-> "set-current-schema", id |-> n]

RequirementHolds(meta, r) == r.id = meta.cur

\* one update on the metadata; ok = FALSE when it cannot be applied
ApplyUpdate(meta, u) ==
    IF u.action = "add-schema"
    THEN [ok |-> TRUE, meta |-> [meta EXCEPT !.schemas = @ \cup {u.id}]]
    ELSE IF u.id \in meta.schemas
         THEN [ok |-> TRUE, meta |-> [meta EXCEPT !.cur = u.id]]
         ELSE [ok |-> FALSE, meta |-> meta]

RECURSIVE ApplyUpdates(_, _)
ApplyUpdates(meta, updates) ==
    IF updates = <<>> THEN [ok |-> TRUE, meta |-> meta]
    ELSE LET r == ApplyUpdate(meta, Head(updates))
         IN IF r.ok THEN ApplyUpdates(r.meta, Tail(updates)) ELSE r

ErrRequirementFailed == Err({}, "requirement failed: current schema id does not match")
ErrUpdateFailed == Err({}, "update failed: schema not found")

\* requirements are checked against, and updates applied to, the table's
\* current metadata; table is the handle LoadTable returned
CatCommitTable(c, table, requirements, updates) ==
    LET ident == table.ident IN
    IF NamespaceOf(ident) \notin DOMAIN c.ns
    THEN Ret(Err({ErrNoSuchNamespace}, "no such namespace"), c, <<>>)
    ELSE IF ident \notin DOMAIN c.tbl
         THEN Ret(Err({ErrNoSuchTable}, "no such table"), c, <<>>)
         ELSE LET cur == c.tbl[ident]
                  r == ApplyUpdates(cur, updates)
                  new == [r.meta EXCEPT !.ver = cur.ver + 1]
              IN IF \E i \in DOMAIN requirements : ~RequirementHolds(cur, requirements[i])
                 THEN Ret(ErrRequirementFailed, c, <<>>)
                 ELSE IF ~r.ok
                      THEN Ret(ErrUpdateFailed, c, <<>>)
                      ELSE Ret(NoErr, [c EXCEPT !.tbl[ident] = new],
                               [ident |-> ident, meta |-> new])

CatSetKVSidecar(c, key, value) == Ret(NoErr, [c EXCEPT !.kv = Put(@, key, value)], <<>>)

CatGetKVSidecar(c, key) ==
    IF key \in DOMAIN c.kv THEN Ret(NoErr, c, c.kv[key])
    ELSE Ret(Err({}, "no such key"), c, "")

(***************************************************************************)
(* catalog.TransactionRequest: CreateTableRequest, CommitTableRequest,     *)
(* SetKVSidecarRequest.                                                    *)
(***************************************************************************)
CreateTableRequest(ident) == [kind |-> "CreateTable", ident |-> ident]
CommitTableRequest(table, updates, requirements) ==
    [kind |-> "CommitTable", table |-> table, updates |-> updates,
     requirements |-> requirements]
SetKVSidecarRequest(key, value) == [kind |-> "SetKVSidecar", key |-> key, value |-> value]

CatApply(c, r) ==
    IF r.kind = "CreateTable" THEN CatCreateTable(c, r.ident)
    ELSE IF r.kind = "CommitTable"
         THEN CatCommitTable(c, r.table, r.requirements, r.updates)
         ELSE CatSetKVSidecar(c, r.key, r.value)

RECURSIVE CatApplyAll(_, _)
\* the requests one after the other on c, up to the first that fails
CatApplyAll(c, reqs) ==
    IF reqs = <<>> THEN Ret(NoErr, c, <<>>)
    ELSE LET r == CatApply(c, Head(reqs))
         IN IF r.err.nil THEN CatApplyAll(r.cat, Tail(reqs)) ELSE r

\* the primary's atomic commit of a batch: all of it, or nothing
CatTransactionPrimary(c, reqs) ==
    LET r == CatApplyAll(c, reqs)
    IN IF r.err.nil THEN r ELSE Ret(r.err, c, <<>>)

ErrFollower == Err({}, "follower propagation failed")

\* Transaction(ctx, reqs, followers...): the primary commits, then each
\* follower receives the batch; folFail: the propagation fails.  The value
\* is what the followers have received afterwards and whether the primary
\* committed.
CatTransaction(c, reqs, followers, folFail) ==
    LET r == CatTransactionPrimary(c, reqs)
    IN IF ~r.err.nil THEN Ret(r.err, c, [fol |-> followers, primary |-> FALSE])
       ELSE IF followers # <<>> /\ folFail
            THEN Ret(ErrFollower, r.cat, [fol |-> followers, primary |-> TRUE])
            ELSE Ret(NoErr, r.cat,
                     [fol |-> [i \in DOMAIN followers |-> Append(followers[i], reqs)],
                      primary |-> TRUE])

(***************************************************************************)
(* A catalog call as a handler sees it: the catalog's own answer, or a     *)
(* failure of the backend (inj), which leaves the catalog as it was.       *)
(***************************************************************************)
Call(inj, c, real) == IF inj.nil THEN real ELSE Ret(inj, c, <<>>)

\* a catalog call in the record of a request: the method and what it returned
K(m, err) == [m |-> m, err |-> err]

\* what a handler leaves behind: the catalog, the response, the calls made
Out(c, w, k) == [cat |-> c, resp |-> w, calls |-> k]

W0 == NoResponse

(***************************************************************************)
(* Namespace handlers (part_007 lines 12-187; namespaces.go holds the      *)
(* same bodies except for ListNamespaces).                                 *)
(***************************************************************************)
\* in: [bad, hasParent, parent, pageSize, pageToken]; the page size and the
\* page token are bound with the request and never read, and the response
\* is built with its next-page-token left nil
ListNamespaces(c, in, inj) ==
    IF in.bad THEN Out(c, JSON(W0, StatusBadRequest, ErrorResponse(ErrBadRequest)), <<>>)
    ELSE LET parent == IF in.hasParent THEN Split(in.parent) ELSE <<>>
             r == Call(inj, c, CatListNamespaces(c, parent))
             k == <<K("ListNamespaces", r.err)>>
         IN IF ~r.err.nil
            THEN IF Is(r.err, ErrNoSuchNamespace)
                 THEN Out(r.cat, JSON(W0, StatusNotFound, ErrorResponse(ErrNamespaceNotFound)), k)
                 ELSE Out(r.cat, JSON(W0, StatusInternalServerError,
                                      ErrorResponse(ErrInternalServerError)), k)
            ELSE Out(r.cat, JSON(W0, StatusOK, Payload([namespaces |-> r.val, nextPageToken |-> <<>>])), k)

\* namespaces.go: no return after the 404 body, so the 500 body follows it
ListNamespacesOld(c, in, inj) ==
    IF in.bad THEN Out(c, JSON(W0, StatusBadRequest, ErrorResponse(ErrBadRequest)), <<>>)
    ELSE LET parent == IF in.hasParent THEN Split(in.parent) ELSE <<>>
             r == Call(inj, c, CatListNamespaces(c, parent))
             k == <<K("ListNamespaces", r.err)>>
             w1 == IF Is(r.err, ErrNoSuchNamespace)
                   THEN JSON(W0, StatusNotFound, ErrorResponse(ErrNamespaceNotFound))
                   ELSE W0
         IN IF ~r.err.nil
            THEN Out(r.cat, JSON(w1, StatusInternalServerError,
                                 ErrorResponse(ErrInternalServerError)), k)
            ELSE Out(r.cat, JSON(W0, StatusOK, Payload([namespaces |-> r.val, nextPageToken |-> <<>>])), k)

\* CreateNamespace that answers a namespace that already exists as created
CreateNamespaceIdempotent(c, in, inj) ==
    IF in.bad THEN Out(c, JSON(W0, StatusBadRequest, ErrorResponse(ErrBadRequest)), <<>>)
    ELSE LET r == Call(inj, c, CatCreateNamespace(c, in.namespace, in.properties))
             k == <<K("CreateNamespace", r.err)>>
         IN IF ~r.err.nil /\ ~Is(r.err, ErrNamespaceAlreadyExistsCat)
            THEN Out(r.cat, JSON(W0, StatusInternalServerError,
                                 ErrorResponse(ErrInternalServerError)), k)
            ELSE Out(r.cat, JSON(W0, StatusOK,
                                 Payload([namespace |-> in.namespace,
                                          properties |-> in.properties])), k)

\* in: [bad, namespace, properties]; the namespace comes from the JSON body
CreateNamespace(c, in, inj) ==
    IF in.bad THEN Out(c, JSON(W0, StatusBadRequest, ErrorResponse(ErrBadRequest)), <<>>)
    ELSE LET r == Call(inj, c, CatCreateNamespace(c, in.namespace, in.properties))
             k == <<K("CreateNamespace", r.err)>>
         IN IF ~r.err.nil
            THEN IF Is(r.err, ErrNamespaceAlreadyExistsCat)
                 THEN Out(r.cat, JSON(W0, StatusConflict,
                                      ErrorResponse(ErrNamespaceAlreadyExists)), k)
                 ELSE Out(r.cat, JSON(W0, StatusInternalServerError,
                                      ErrorResponse(ErrInternalServerError)), k)
            ELSE Out(r.cat, JSON(W0, StatusOK,
                                 Payload([namespace |-> in.namespace,
                                          properties |-> in.properties])), k)

\* in: [ns]; ns is the :namespace path parameter
LoadNamespaceMetadata(c, in, inj) ==
    LET namespace == Split(in.ns)
        r == Call(inj, c, CatLoadNamespaceProperties(c, namespace))
        k == <<K("LoadNamespaceProperties", r.err)>>
    IN IF ~r.err.nil
       THEN IF Is(r.err, ErrNoSuchNamespace)
            THEN Out(r.cat, JSON(W0, StatusNotFound, ErrorResponse(ErrNamespaceNotFound)), k)
            ELSE Out(r.cat, JSON(W0, StatusInternalServerError,
                                 ErrorResponse(ErrInternalServerError)), k)
       ELSE Out(r.cat, JSON(W0, StatusOK,
                            Payload([namespace |-> namespace, properties |-> r.val])), k)

NamespaceExists(c, in, inj) ==
    LET namespace == Split(in.ns)
        r == Call(inj, c, CatCheckNamespaceExists(c, namespace))
        k == <<K("CheckNamespaceExists", r.err)>>
    IN IF ~r.err.nil
       THEN Out(r.cat, JSON(W0, StatusInternalServerError,
                            ErrorResponse(ErrInternalServerError)), k)
       ELSE IF ~r.val
            THEN Out(r.cat, JSON(W0, StatusNotFound, ErrorResponse(ErrNamespaceNotFound)), k)
            ELSE Out(r.cat, Status(W0, StatusNoContent), k)

\* DropNamespace without the NotEmpty branch of part_007 lines 133-138
DropNamespaceNoNotEmpty(c, in, inj) ==
    LET namespace == Split(in.ns)
        r == Call(inj, c, CatDropNamespace(c, namespace))
        k == <<K("DropNamespace", r.err)>>
    IN IF ~r.err.nil
       THEN IF Is(r.err, ErrNoSuchNamespace)
            THEN Out(r.cat, JSON(W0, StatusNotFound, ErrorResponse(ErrNamespaceNotFound)), k)
            ELSE Out(r.cat, JSON(W0, StatusInternalServerError,
                                 ErrorResponse(ErrInternalServerError)), k)
       ELSE Out(r.cat, Status(W0, StatusNoContent), k)

DropNamespace(c, in, inj) ==
    LET namespace == Split(in.ns)
        r == Call(inj, c, CatDropNamespace(c, namespace))
        k == <<K("DropNamespace", r.err)>>
    IN IF ~r.err.nil
       THEN IF Is(r.err, ErrNoSuchNamespace)
            THEN Out(r.cat, JSON(W0, StatusNotFound, ErrorResponse(ErrNamespaceNotFound)), k)
            ELSE IF Is(r.err, ErrNamespaceNotEmptyCat)
                 THEN Out(r.cat, JSON(W0, StatusConflict, ErrorResponse(ErrNamespaceNotEmpty)), k)
                 ELSE Out(r.cat, JSON(W0, StatusInternalServerError,
                                      ErrorResponse(ErrInternalServerError)), k)
       ELSE Out(r.cat, Status(W0, StatusNoContent), k)

\* a precondition that looks at the first removal only
DuplicateKeyFirstOnly(removals, updates) ==
    removals # <<>> /\ removals[1] \in DOMAIN updates

\* the loop over req.Removals: some removal is a key of req.Updates
DuplicateKey(removals, updates) ==
    \E i \in DOMAIN removals : removals[i] \in DOMAIN updates

\* UpdateProperties that fills Removed from summary.Missing and Missing
\* from summary.Removed
UpdatePropertiesSwapped(c, in, inj) ==
    LET namespace == Split(in.ns) IN
    IF in.bad THEN Out(c, JSON(W0, StatusBadRequest, ErrorResponse(ErrBadRequest)), <<>>)
    ELSE IF DuplicateKey(in.removals, in.updates)
    THEN Out(c, JSON(W0, StatusUnprocessableEntity,
                     ErrorResponse(ErrUnprocessableEntityDuplicateKey)), <<>>)
    ELSE LET r == Call(inj, c, CatUpdateNamespaceProperties(c, namespace, in.removals, in.updates))
             k == <<K("UpdateNamespaceProperties", r.err)>>
         IN IF ~r.err.nil
            THEN IF Is(r.err, ErrNoSuchNamespace)
                 THEN Out(r.cat, JSON(W0, StatusNotFound, ErrorResponse(ErrNamespaceNotFound)), k)
                 ELSE Out(r.cat, JSON(W0, StatusInternalServerError,
                                      ErrorResponse(ErrInternalServerError)), k)
            ELSE Out(r.cat, JSON(W0, StatusOK,
                                 Payload([Updated |-> r.val.Updated,
                                          Removed |-> r.val.Missing,
                                          Missing |-> r.val.Removed])), k)

\* UpdateProperties that hands the catalog the updates without the removals
UpdatePropertiesDropsRemovals(c, in, inj) ==
    LET namespace == Split(in.ns) IN
    IF in.bad THEN Out(c, JSON(W0, StatusBadRequest, ErrorResponse(ErrBadRequest)), <<>>)
    ELSE IF DuplicateKey(in.removals, in.updates)
    THEN Out(c, JSON(W0, StatusUnprocessableEntity,
                     ErrorResponse(ErrUnprocessableEntityDuplicateKey)), <<>>)
    ELSE LET r == Call(inj, c, CatUpdateNamespaceProperties(c, namespace, <<>>, in.updates))
             k == <<K("UpdateNamespaceProperties", r.err)>>
         IN IF ~r.err.nil
            THEN IF Is(r.err, ErrNoSuchNamespace)
                 THEN Out(r.cat, JSON(W0, StatusNotFound, ErrorResponse(ErrNamespaceNotFound)), k)
                 ELSE Out(r.cat, JSON(W0, StatusInternalServerError,
                                      ErrorResponse(ErrInternalServerError)), k)
            ELSE Out(r.cat, JSON(W0, StatusOK,
                                 Payload([Updated |-> r.val.Updated,
                                          Removed |-> r.val.Removed,
                                          Missing |-> r.val.Missing])), k)

\* in: [bad, ns, removals, updates]
UpdateProperties(c, in, inj) ==
    LET namespace == Split(in.ns) IN
    IF in.bad THEN Out(c, JSON(W0, StatusBadRequest, ErrorResponse(ErrBadRequest)), <<>>)
    ELSE IF DuplicateKey(in.removals, in.updates)
    THEN Out(c, JSON(W0, StatusUnprocessableEntity,
                     ErrorResponse(ErrUnprocessableEntityDuplicateKey)), <<>>)
    ELSE LET r == Call(inj, c, CatUpdateNamespaceProperties(c, namespace, in.removals, in.updates))
             k == <<K("UpdateNamespaceProperties", r.err)>>
         IN IF ~r.err.nil
            THEN IF Is(r.err, ErrNoSuchNamespace)
                 THEN Out(r.cat, JSON(W0, StatusNotFound, ErrorResponse(ErrNamespaceNotFound)), k)
                 ELSE Out(r.cat, JSON(W0, StatusInternalServerError,
                                      ErrorResponse(ErrInternalServerError)), k)
            ELSE Out(r.cat, JSON(W0, StatusOK,
                                 Payload([Updated |-> r.val.Updated,
                                          Removed |-> r.val.Removed,
                                          Missing |-> r.val.Missing])), k)


(***************************************************************************)
(* Table handlers (models.go lines 94-458, tables.go lines 28-418).        *)
(***************************************************************************)
GetConfig(c, in, inj) == Out(c, JSON(W0, StatusOK, Payload([config |-> "config"])), <<>>)

\* Identifier{Namespace: table[:len(table)-1], Name: table[len(table)-1]}
ToIdentifier(table) == [Namespace |-> NamespaceOf(table), Name |-> table[Len(table)]]

\* The iterator catalog.ListTables returns, as the list of the pairs it
\* yields: the namespace's tables in the order given, and with failAt = i
\* > 0 an error in place of the i-th (past the end: after the last), which
\* comes with the identifier withID (nil or not, the interface leaves it).
CatListTables(c, ns, order, failAt, withID, err) ==
    LET ok == [i \in DOMAIN order |-> [id |-> order[i], err |-> NoErr]]
        bad == [id |-> withID, err |-> err]
    IN IF ns \notin DOMAIN c.ns
       THEN <<[id |-> <<>>, err |-> Err({ErrNoSuchNamespace}, "no such namespace")]>>
       ELSE IF failAt = 0 THEN ok
            ELSE IF failAt > Len(order) THEN Append(ok, bad)
                 ELSE [i \in DOMAIN order |-> IF i = failAt THEN bad ELSE ok[i]]

\* the state of the range loop of ListTables: the response, the buffered
\* identifiers, the pairs consumed, and whether the handler has returned
Loop(w, res, n, returned) == [resp |-> w, res |-> res, consumed |-> n, returned |-> returned]

RECURSIVE ListTablesLoop(_, _, _, _)
\* models.go lines 110-127
ListTablesLoop(it, i, w, res) ==
    IF i > Len(it) THEN Loop(w, res, i - 1, FALSE)
    ELSE IF ~it[i].err.nil
         THEN Loop(JSON(w, StatusInternalServerError, ErrorResponse(ErrInternalServerError)),
                   res, i, TRUE)
         ELSE IF Len(it[i].id) = 0
              THEN ListTablesLoop(it, i + 1, w, res)
              ELSE ListTablesLoop(it, i + 1, w, Append(res, ToIdentifier(it[i].id)))

RECURSIVE ListTablesLoopOld(_, _, _, _)
\* tables.go lines 50-61: no return after the 500 body; slicing an empty
\* identifier panics, and gin.Recovery answers the panic with
\* AbortWithStatus(500)
ListTablesLoopOld(it, i, w, res) ==
    IF i > Len(it) THEN Loop(w, res, i - 1, FALSE)
    ELSE LET w1 == IF ~it[i].err.nil
                   THEN JSON(w, StatusInternalServerError, ErrorResponse(ErrInternalServerError))
                   ELSE w
         IN IF Len(it[i].id) = 0
            THEN Loop(Status(w1, StatusInternalServerError), res, i, TRUE)
            ELSE ListTablesLoopOld(it, i + 1, w1, Append(res, ToIdentifier(it[i].id)))

\* one "yield" per pair of the iterator the loop consumed
Yields(it, n) == [i \in 1..n |-> K("yield", it[i].err)]

\* in: [ns, order, failAt, withID, err]
ListTables(c, in, inj) ==
    LET namespace == Split(in.ns)
        it == CatListTables(c, namespace, in.order, in.failAt, in.withID, in.err)
        l == ListTablesLoop(it, 1, W0, <<>>)
        k == <<K("ListTables", NoErr)>> \o Yields(it, l.consumed)
    IN IF l.returned THEN Out(c, l.resp, k)
       ELSE Out(c, JSON(l.resp, StatusOK, Payload([identifiers |-> l.res])), k)

ListTablesOld(c, in, inj) ==
    LET namespace == Split(in.ns)
        it == CatListTables(c, namespace, in.order, in.failAt, in.withID, in.err)
        l == ListTablesLoopOld(it, 1, W0, <<>>)
        k == <<K("ListTables", NoErr)>> \o Yields(it, l.consumed)
    IN IF l.returned THEN Out(c, l.resp, k)
       ELSE Out(c, JSON(l.resp, StatusOK, Payload([identifiers |-> l.res])), k)

\* CreateTable without the stage-create branch of models.go lines 147-152
CreateTableIgnoresStage(c, in, inj) ==
    LET namespace == Split(in.ns) IN
    IF in.bad THEN Out(c, JSON(W0, StatusBadRequest, ErrorResponse(ErrBadRequest)), <<>>)
    ELSE LET r == Call(inj, c, CatCreateTable(c, Ident(namespace, in.name)))
             k == <<K("CreateTable", r.err)>>
         IN IF ~r.err.nil
            THEN IF Is(r.err, ErrNoSuchNamespace)
                 THEN Out(r.cat, JSON(W0, StatusNotFound, ErrorResponse(ErrNamespaceNotFound)), k)
                 ELSE IF Is(r.err, ErrTableAlreadyExistsCat)
                      THEN Out(r.cat, JSON(W0, StatusConflict,
                                           ErrorResponse(ErrTableAlreadyExists)), k)
                      ELSE Out(r.cat, JSON(W0, StatusInternalServerError,
                                           ErrorResponse(ErrInternalServerError)), k)
            ELSE Out(r.cat, JSON(W0, StatusOK, Payload(r.val)), k)

\* in: [bad, ns, name, stage, marshalFail]
CreateTable(c, in, inj) ==
    LET namespace == Split(in.ns) IN
    IF in.bad THEN Out(c, JSON(W0, StatusBadRequest, ErrorResponse(ErrBadRequest)), <<>>)
    ELSE IF in.stage
    THEN Out(c, JSON(W0, StatusNotImplemented, ErrorResponse(ErrNotImplemented)), <<>>)
    ELSE LET r == Call(inj, c, CatCreateTable(c, Ident(namespace, in.name)))
             k == <<K("CreateTable", r.err)>>
         IN IF ~r.err.nil
            THEN IF Is(r.err, ErrNoSuchNamespace)
                 THEN Out(r.cat, JSON(W0, StatusNotFound, ErrorResponse(ErrNamespaceNotFound)), k)
                 ELSE IF Is(r.err, ErrTableAlreadyExistsCat)
                      THEN Out(r.cat, JSON(W0, StatusConflict,
                                           ErrorResponse(ErrTableAlreadyExists)), k)
                      ELSE Out(r.cat, JSON(W0, StatusInternalServerError,
                                           ErrorResponse(ErrInternalServerError)), k)
            ELSE IF in.marshalFail
                 THEN Out(r.cat, JSON(W0, StatusInternalServerError,
                                      ErrorResponse(ErrInternalServerError)), k)
                 ELSE Out(r.cat, JSON(W0, StatusOK, Payload(r.val)), k)

\* tables.go lines 109-126: no return after the 409 body
CreateTableOld(c, in, inj) ==
    LET namespace == Split(in.ns) IN
    IF in.bad THEN Out(c, JSON(W0, StatusBadRequest, ErrorResponse(ErrBadRequest)), <<>>)
    ELSE IF in.stage
    THEN Out(c, JSON(W0, StatusNotImplemented, ErrorResponse(ErrNotImplemented)), <<>>)
    ELSE LET r == Call(inj, c, CatCreateTable(c, Ident(namespace, in.name)))
             k == <<K("CreateTable", r.err)>>
             w1 == IF Is(r.err, ErrTableAlreadyExistsCat)
                   THEN JSON(W0, StatusConflict, ErrorResponse(ErrTableAlreadyExists))
                   ELSE W0
         IN IF ~r.err.nil
            THEN IF Is(r.err, ErrNoSuchNamespace)
                 THEN Out(r.cat, JSON(W0, StatusNotFound, ErrorResponse(ErrNamespaceNotFound)), k)
                 ELSE Out(r.cat, JSON(w1, StatusInternalServerError,
                                      ErrorResponse(ErrInternalServerError)), k)
            ELSE IF in.marshalFail
                 THEN Out(r.cat, JSON(W0, StatusInternalServerError,
                                      ErrorResponse(ErrInternalServerError)), k)
                 ELSE Out(r.cat, JSON(W0, StatusOK, Payload(r.val)), k)

\* TableError with a fallback that copies the failure's text into the body
TableErrorLeaks(c, err, k) ==
    IF Is(err, ErrNoSuchNamespace)
    THEN Out(c, JSON(W0, StatusNotFound, ErrorResponse(ErrNamespaceNotFound)), k)
    ELSE IF Is(err, ErrNoSuchTable)
         THEN Out(c, JSON(W0, StatusNotFound, ErrorResponse(ErrTableNotFound)), k)
         ELSE Out(c, JSON(W0, StatusInternalServerError,
                          ErrorResponse([ErrInternalServerError EXCEPT !.message = err.text])), k)

\* TableError with the two sentinel checks in the other order
TableErrorTableFirst(c, err, k) ==
    IF Is(err, ErrNoSuchTable)
    THEN Out(c, JSON(W0, StatusNotFound, ErrorResponse(ErrTableNotFound)), k)
    ELSE IF Is(err, ErrNoSuchNamespace)
         THEN Out(c, JSON(W0, StatusNotFound, ErrorResponse(ErrNamespaceNotFound)), k)
         ELSE Out(c, JSON(W0, StatusInternalServerError,
                          ErrorResponse(ErrInternalServerError)), k)

\* the mapping every table handler applies to a failed LoadTable,
\* CommitTable, DropTable, CheckTableExists or RenameTable
TableError(c, err, k) ==
    IF Is(err, ErrNoSuchNamespace)
    THEN Out(c, JSON(W0, StatusNotFound, ErrorResponse(ErrNamespaceNotFound)), k)
    ELSE IF Is(err, ErrNoSuchTable)
         THEN Out(c, JSON(W0, StatusNotFound, ErrorResponse(ErrTableNotFound)), k)
         ELSE Out(c, JSON(W0, StatusInternalServerError,
                          ErrorResponse(ErrInternalServerError)), k)

\* in: [ns, name, marshalFail]
LoadTable(c, in, inj) ==
    LET r == Call(inj, c, CatLoadTable(c, Ident(Split(in.ns), in.name)))
        k == <<K("LoadTable", r.err)>>
    IN IF ~r.err.nil THEN TableError(r.cat, r.err, k)
       ELSE IF in.marshalFail
            THEN Out(r.cat, JSON(W0, StatusInternalServerError,
                                 ErrorResponse(ErrInternalServerError)), k)
            ELSE Out(r.cat, JSON(W0, StatusOK, Payload(r.val)), k)

\* tables.go lines 262-273: a failed Marshal is logged and the response is
\* still written, with the metadata it could not marshal left empty
LoadTableOld(c, in, inj) ==
    LET r == Call(inj, c, CatLoadTable(c, Ident(Split(in.ns), in.name)))
        k == <<K("LoadTable", r.err)>>
    IN IF ~r.err.nil THEN TableError(r.cat, r.err, k)
       ELSE IF in.marshalFail
            THEN Out(r.cat, JSON(W0, StatusOK, Payload([ident |-> r.val.ident, meta |-> <<>>])), k)
            ELSE Out(r.cat, JSON(W0, StatusOK, Payload(r.val)), k)

\* DropTable that drops the table before it turns the purge down
DropTablePurgeDrops(c, in, inj) ==
    IF in.name = <<>>
    THEN Out(c, JSON(W0, StatusBadRequest, ErrorResponse(ErrBadRequest)), <<>>)
    ELSE LET r == Call(inj, c, CatDropTable(c, Ident(Split(in.ns), in.name)))
             k == <<K("DropTable", r.err)>>
         IN IF in.purge
            THEN Out(r.cat, JSON(W0, StatusBadRequest, ErrorResponse(ErrNotImplemented)), k)
            ELSE IF ~r.err.nil THEN TableError(r.cat, r.err, k)
                 ELSE Out(r.cat, Status(W0, StatusNoContent), k)

\* in: [ns, name, purge]
DropTable(c, in, inj) ==
    IF in.name = <<>>
    THEN Out(c, JSON(W0, StatusBadRequest, ErrorResponse(ErrBadRequest)), <<>>)
    ELSE IF in.purge
    THEN Out(c, JSON(W0, StatusBadRequest, ErrorResponse(ErrNotImplemented)), <<>>)
    ELSE LET r == Call(inj, c, CatDropTable(c, Ident(Split(in.ns), in.name)))
             k == <<K("DropTable", r.err)>>
         IN IF ~r.err.nil THEN TableError(r.cat, r.err, k)
            ELSE Out(r.cat, Status(W0, StatusNoContent), k)

\* TableExists that answers 204 whatever the catalog said of the table
TableExistsIgnoresAnswer(c, in, inj) ==
    IF in.name = <<>>
    THEN Out(c, JSON(W0, StatusBadRequest, ErrorResponse(ErrBadRequest)), <<>>)
    ELSE LET r == Call(inj, c, CatCheckTableExists(c, Ident(Split(in.ns), in.name)))
             k == <<K("CheckTableExists", r.err)>>
         IN IF ~r.err.nil THEN TableError(r.cat, r.err, k)
            ELSE Out(r.cat, Status(W0, StatusNoContent), k)

\* in: [ns, name]
TableExists(c, in, inj) ==
    IF in.name = <<>>
    THEN Out(c, JSON(W0, StatusBadRequest, ErrorResponse(ErrBadRequest)), <<>>)
    ELSE LET r == Call(inj, c, CatCheckTableExists(c, Ident(Split(in.ns), in.name)))
             k == <<K("CheckTableExists", r.err)>>
         IN IF ~r.err.nil THEN TableError(r.cat, r.err, k)
            ELSE IF ~r.val
                 THEN Out(r.cat, JSON(W0, StatusNotFound, ErrorResponse(ErrTableNotFound)), k)
                 ELSE Out(r.cat, Status(W0, StatusNoContent), k)

\* what RenameTable answers a successful rename with: 200 in models.go
\* line 457, 204 in tables.go line 417
RenameTableStatus(b) == IF b = "old" THEN StatusNoContent ELSE StatusOK

\* RenameTable that clears the destination before it renames
RenameTableOverwrites(b, c, in, inj) ==
    IF in.bad THEN Out(c, JSON(W0, StatusBadRequest, ErrorResponse(ErrBadRequest)), <<>>)
    ELSE LET from == Ident(in.source.Namespace, in.source.Name)
             to == Ident(in.destination.Namespace, in.destination.Name)
             d == IF from # to /\ from \in DOMAIN c.tbl THEN CatDropTable(c, to).cat ELSE c
             r == Call(inj, d, CatRenameTable(d, from, to))
             k == <<K("RenameTable", r.err)>>
         IN IF ~r.err.nil THEN TableError(r.cat, r.err, k)
            ELSE Out(r.cat, Status(W0, RenameTableStatus(b)), k)

\* RenameTable with source and destination exchanged
RenameTableSwapped(b, c, in, inj) ==
    IF in.bad THEN Out(c, JSON(W0, StatusBadRequest, ErrorResponse(ErrBadRequest)), <<>>)
    ELSE LET r == Call(inj, c, CatRenameTable(c,
                       Ident(in.destination.Namespace, in.destination.Name),
                       Ident(in.source.Namespace, in.source.Name)))
             k == <<K("RenameTable", r.err)>>
         IN IF ~r.err.nil THEN TableError(r.cat, r.err, k)
            ELSE Out(r.cat, Status(W0, RenameTableStatus(b)), k)

\* in: [bad, source, destination], each an Identifier{Namespace, Name}
RenameTable(b, c, in, inj) ==
    IF in.bad THEN Out(c, JSON(W0, StatusBadRequest, ErrorResponse(ErrBadRequest)), <<>>)
    ELSE LET r == Call(inj, c, CatRenameTable(c,
                       Ident(in.source.Namespace, in.source.Name),
                       Ident(in.destination.Namespace, in.destination.Name)))
             k == <<K("RenameTable", r.err)>>
         IN IF ~r.err.nil THEN TableError(r.cat, r.err, k)
            ELSE Out(r.cat, Status(W0, RenameTableStatus(b)), k)


(***************************************************************************)
(* UpdateTable makes two catalog calls, LoadTable and CommitTable; other   *)
(* requests can run between them.                                          *)
(***************************************************************************)
\* in: [bad, ns, name, requirements, updates, marshalFail]
\* models.go lines 206-246; table: the handle loaded, more: CommitTable follows
UpdateTableLoad(c, in, inj) ==
    IF in.name = <<>> \/ in.bad
    THEN [out |-> Out(c, JSON(W0, StatusBadRequest, ErrorResponse(ErrBadRequest)), <<>>),
          more |-> FALSE, table |-> <<>>]
    ELSE LET r == Call(inj, c, CatLoadTable(c, Ident(Split(in.ns), in.name)))
             k == <<K("LoadTable", r.err)>>
         IN IF ~r.err.nil
            THEN [out |-> TableError(r.cat, r.err, k), more |-> FALSE, table |-> <<>>]
            ELSE [out |-> Out(r.cat, W0, k), more |-> TRUE, table |-> r.val]

\* a list in the opposite order
RECURSIVE Reversed(_)
Reversed(l) == IF l = <<>> THEN <<>> ELSE Append(Reversed(Tail(l)), Head(l))

\* UpdateTable that hands CommitTable the updates last to first
UpdateTableCommitReversed(c, in, table, inj) ==
    LET r == Call(inj, c, CatCommitTable(c, table, in.requirements, Reversed(in.updates)))
        k == <<K("CommitTable", r.err)>>
    IN IF ~r.err.nil THEN TableError(r.cat, r.err, k)
       ELSE IF in.marshalFail
            THEN Out(r.cat, JSON(W0, StatusInternalServerError,
                                 ErrorResponse(ErrInternalServerError)), k)
            ELSE Out(r.cat, JSON(W0, StatusOK, Payload(r.val)), k)

\* UpdateTable that logs a failed Marshal and answers 200 all the same, as
\* LoadTable of tables.go does
UpdateTableCommitLogsOnly(c, in, table, inj) ==
    LET r == Call(inj, c, CatCommitTable(c, table, in.requirements, in.updates))
        k == <<K("CommitTable", r.err)>>
    IN IF ~r.err.nil THEN TableError(r.cat, r.err, k)
       ELSE IF in.marshalFail
            THEN Out(r.cat, JSON(W0, StatusOK, Payload([ident |-> r.val.ident, meta |-> <<>>])), k)
            ELSE Out(r.cat, JSON(W0, StatusOK, Payload(r.val)), k)

\* models.go lines 248-282
UpdateTableCommit(c, in, table, inj) ==
    LET r == Call(inj, c, CatCommitTable(c, table, in.requirements, in.updates))
        k == <<K("CommitTable", r.err)>>
    IN IF ~r.err.nil THEN TableError(r.cat, r.err, k)
       ELSE IF in.marshalFail
            THEN Out(r.cat, JSON(W0, StatusInternalServerError,
                                 ErrorResponse(ErrInternalServerError)), k)
            ELSE Out(r.cat, JSON(W0, StatusOK, Payload(r.val)), k)

(***************************************************************************)
(* Sidecar handlers and Transaction (transaction.go).                      *)
(***************************************************************************)
\* in: [bad, key, value]
SetKVSidecar(c, in, inj) ==
    IF in.bad THEN Out(c, JSON(W0, StatusBadRequest, ErrorResponse(ErrBadRequest)), <<>>)
    ELSE LET r == Call(inj, c, CatSetKVSidecar(c, in.key, in.value))
             k == <<K("SetKVSidecar", r.err)>>
         IN IF ~r.err.nil
            THEN Out(r.cat, JSON(W0, StatusInternalServerError,
                                 ErrorResponse(ErrInternalServerError)), k)
            ELSE Out(r.cat, Status(W0, StatusAccepted), k)

\* in: [key]
GetKVSidecar(c, in, inj) ==
    LET r == Call(inj, c, CatGetKVSidecar(c, in.key))
        k == <<K("GetKVSidecar", r.err)>>
    IN IF ~r.err.nil
       THEN Out(r.cat, JSON(W0, StatusInternalServerError,
                            ErrorResponse(ErrInternalServerError)), k)
       ELSE Out(r.cat, JSON(W0, StatusOK, Payload([Key |-> in.key, Value |-> r.val])), k)

\* A pointer field of the request struct: nil, or one value.
None == <<>>
Some(x) == <<x>>

\* a loop turn that leaves out an UpdateTable whose LoadTable failed and
\* goes on with the batch
TransactionDescriptorSkips(c, reqs, r, inj) ==
    LET r1 == IF r.CreateTable # None
              THEN Append(reqs, CreateTableRequest(
                       <<r.CreateTable[1].Namespace, r.CreateTable[1].Name>>))
              ELSE reqs
        u == r.UpdateTable[1]
        l == Call(inj, c, CatLoadTable(c, Ident(u.Identifier.Namespace, u.Identifier.Name)))
        r2 == IF r.UpdateTable # None /\ l.err.nil
              THEN Append(r1, CommitTableRequest(l.val, u.Updates, u.Requirements))
              ELSE r1
        r3 == IF r.SetKVSidecar # None
              THEN Append(r2, SetKVSidecarRequest(r.SetKVSidecar[1].Key, r.SetKVSidecar[1].Value))
              ELSE r2
    IN [failed |-> FALSE,
        reqs |-> r3,
        calls |-> IF r.UpdateTable # None THEN <<K("LoadTable", l.err)>> ELSE <<>>,
        resp |-> W0]

\* One turn of the loop over the descriptors (transaction.go lines 69-111):
\* the requests the descriptor r adds to reqs; failed: LoadTable failed and
\* the handler has answered.
TransactionDescriptor(c, reqs, r, inj) ==
    LET r1 == IF r.CreateTable # None
              THEN Append(reqs, CreateTableRequest(
                       <<r.CreateTable[1].Namespace, r.CreateTable[1].Name>>))
              ELSE reqs
        u == r.UpdateTable[1]
        l == Call(inj, c, CatLoadTable(c, Ident(u.Identifier.Namespace, u.Identifier.Name)))
        failed == r.UpdateTable # None /\ ~l.err.nil
        r2 == IF r.UpdateTable # None
              THEN Append(r1, CommitTableRequest(l.val, u.Updates, u.Requirements))
              ELSE r1
        r3 == IF r.SetKVSidecar # None
              THEN Append(r2, SetKVSidecarRequest(r.SetKVSidecar[1].Key, r.SetKVSidecar[1].Value))
              ELSE r2
    IN [failed |-> failed,
        reqs |-> IF failed THEN r1 ELSE r3,
        calls |-> IF r.UpdateTable # None THEN <<K("LoadTable", l.err)>> ELSE <<>>,
        resp |-> IF failed
                 THEN JSON(W0, StatusInternalServerError, ErrorResponse(ErrInternalServerError))
                 ELSE W0]

\* a handler that makes the catalog calls of the batch one after the
\* other itself: what the calls before a failing one did stays
TransactionSubmitEach(c, reqs, followers, inj, folFail) ==
    LET a == CatApplyAll(c, reqs)
        r == IF ~inj.nil THEN Ret(inj, c, [fol |-> followers, primary |-> FALSE])
             ELSE IF a.err.nil THEN CatTransaction(c, reqs, followers, folFail)
                  ELSE Ret(a.err, a.cat, [fol |-> followers, primary |-> FALSE])
    IN [out |-> Out(r.cat,
                    IF ~r.err.nil
                    THEN JSON(W0, StatusInternalServerError,
                              ErrorResponse(ErrInternalServerError))
                    ELSE Status(W0, StatusOK),
                    <<K("Transaction", r.err)>>),
        fol |-> r.val.fol,
        primary |-> r.val.primary]

\* a handler that hands the batch to the followers itself, whatever the
\* primary answers
TransactionSubmitAlways(c, reqs, followers, inj, folFail) ==
    LET r == IF inj.nil THEN CatTransaction(c, reqs, followers, folFail)
             ELSE Ret(inj, c, [fol |-> followers, primary |-> FALSE])
    IN [out |-> Out(r.cat,
                    IF ~r.err.nil
                    THEN JSON(W0, StatusInternalServerError,
                              ErrorResponse(ErrInternalServerError))
                    ELSE Status(W0, StatusOK),
                    <<K("Transaction", r.err)>>),
        fol |-> [i \in DOMAIN followers |-> Append(followers[i], reqs)],
        primary |-> r.val.primary]

\* h.catalog.Transaction(ctx, reqs, h.followers...) and the response
\* (transaction.go lines 113-120); fol: what the followers hold afterwards,
\* primary: whether the primary committed the batch
TransactionSubmit(c, reqs, followers, inj, folFail) ==
    LET r == IF inj.nil THEN CatTransaction(c, reqs, followers, folFail)
             ELSE Ret(inj, c, [fol |-> followers, primary |-> FALSE])
    IN [out |-> Out(r.cat,
                    IF ~r.err.nil
                    THEN JSON(W0, StatusInternalServerError,
                              ErrorResponse(ErrInternalServerError))
                    ELSE Status(W0, StatusOK),
                    <<K("Transaction", r.err)>>),
        fol |-> r.val.fol,
        primary |-> r.val.primary]


(***************************************************************************)
(* The requests the model sends.                                           *)
(***************************************************************************)
CompA == <<"a">>
CompB == <<"b">>
NameT == <<"t">>
NameU == <<"u">>

\* :namespace path parameters: "a" and "a\x1Fb"
NsParams == {CompA, CompA \o namespaceSeparator \o CompB}
\* the namespaces they name
NsA == <<CompA>>
NsAB == <<CompA, CompB>>
Namespaces == {NsA, NsAB}
TableNames == {NameT, NameU}

\* failures of the backend: each sentinel alone, two sentinels wrapped in
\* one error, and two errors no sentinel matches that differ in their text
InjErrs ==
    {Err({x}, "sentinel") : x \in Sentinels}
        \cup {Err({ErrNoSuchNamespace, ErrNoSuchTable}, "both"),
              Err({}, "disk failure"), Err({}, "connection refused")}
Inj == {NoErr} \cup InjErrs

\* pageSize and pageToken are optional query parameters: <<>> when absent
ListNamespacesInputs ==
    {[bad |-> TRUE, hasParent |-> FALSE, parent |-> <<>>, pageSize |-> <<>>, pageToken |-> <<>>],
     [bad |-> FALSE, hasParent |-> FALSE, parent |-> <<>>, pageSize |-> <<>>, pageToken |-> <<>>],
     [bad |-> FALSE, hasParent |-> FALSE, parent |-> <<>>, pageSize |-> <<1>>, pageToken |-> <<>>],
     [bad |-> FALSE, hasParent |-> FALSE, parent |-> <<>>, pageSize |-> <<1>>,
      pageToken |-> <<"token">>]}
        \cup {[bad |-> FALSE, hasParent |-> TRUE, parent |-> q, pageSize |-> <<>>,
               pageToken |-> <<>>] : q \in NsParams}

CreateNamespaceInputs ==
    {[bad |-> TRUE, namespace |-> NsA, properties |-> EmptyMap]}
        \cup {[bad |-> FALSE, namespace |-> n, properties |-> pr] :
                 n \in Namespaces, pr \in {EmptyMap, [k \in {"k1"} |-> "v1"]}}

NsInputs == {[ns |-> q] : q \in NsParams}

RemovalLists == {<<>>, <<"k1">>, <<"k2", "k1">>}
UpdateMaps == {EmptyMap, [k \in {"k1"} |-> "v2"], [k \in {"k2"} |-> "v2"]}
UpdatePropertiesInputs ==
    {[bad |-> TRUE, ns |-> CompA, removals |-> <<>>, updates |-> EmptyMap]}
        \cup {[bad |-> FALSE, ns |-> q, removals |-> rm, updates |-> up] :
                 q \in NsParams, rm \in RemovalLists, up \in UpdateMaps}

\* the tables of namespace ns, in every order an iterator can yield them
TablesOf(c, ns) == {t \in DOMAIN c.tbl : NamespaceOf(t) = ns}
Orders(S) ==
    {o \in UNION {[1..n -> S] : n \in {Cardinality(S)}} :
        \A i, j \in DOMAIN o : i # j => o[i] # o[j]}

ListTablesInputs(c) ==
    {[ns |-> q, order |-> o, failAt |-> f, withID |-> id, err |-> e] :
        q \in {CompA}, o \in Orders(TablesOf(c, Split(CompA))),
        f \in 0..3, id \in {<<>>, <<CompA, NameU>>},
        e \in {Err({}, "scan failed")}}

CreateTableInputs ==
    {[bad |-> TRUE, ns |-> CompA, name |-> NameT, stage |-> FALSE, marshalFail |-> FALSE],
     [bad |-> FALSE, ns |-> CompA, name |-> NameU, stage |-> FALSE, marshalFail |-> TRUE]}
        \cup {[bad |-> FALSE, ns |-> q, name |-> n, stage |-> sc, marshalFail |-> FALSE] :
                 q \in NsParams, n \in TableNames, sc \in BOOLEAN}

LoadTableInputs ==
    {[ns |-> CompA, name |-> NameT, marshalFail |-> TRUE]}
        \cup {[ns |-> q, name |-> n, marshalFail |-> FALSE] : q \in NsParams, n \in TableNames}

DropTableInputs ==
    {[ns |-> q, name |-> n, purge |-> pg] : q \in NsParams, n \in TableNames, pg \in BOOLEAN}

TableInputs == {[ns |-> q, name |-> n] : q \in NsParams, n \in TableNames}

Identifiers == {[Namespace |-> n, Name |-> t] : n \in Namespaces, t \in TableNames}

RenameTableInputs ==
    {[bad |-> TRUE, source |-> [Namespace |-> NsA, Name |-> NameT],
      destination |-> [Namespace |-> NsA, Name |-> NameU]]}
        \cup {[bad |-> FALSE, source |-> x, destination |-> y] :
                 x \in Identifiers, y \in Identifiers}

RequirementLists == {<<>>, <<AssertCurrentSchemaID(0)>>}
UpdateLists ==
    {<<AddSchemaUpdate(1), SetCurrentSchemaUpdate(1)>>,
     <<SetCurrentSchemaUpdate(1), AddSchemaUpdate(1)>>,
     <<SetCurrentSchemaUpdate(0)>>}

UpdateTableInputs ==
    {[bad |-> TRUE, ns |-> CompA, name |-> NameT, requirements |-> <<>>,
      updates |-> <<>>, marshalFail |-> FALSE],
     [bad |-> FALSE, ns |-> CompA, name |-> NameT, requirements |-> <<>>,
      updates |-> <<SetCurrentSchemaUpdate(0)>>, marshalFail |-> TRUE]}
        \cup {[bad |-> FALSE, ns |-> CompA, name |-> n, requirements |-> rq,
               updates |-> up, marshalFail |-> FALSE] :
                 n \in TableNames, rq \in RequirementLists, up \in UpdateLists}

SetKVInputs ==
    {[bad |-> TRUE, key |-> "x", value |-> "v1"]}
        \cup {[bad |-> FALSE, key |-> "x", value |-> v] : v \in {"v1", "v2"}}
GetKVInputs == {[key |-> "x"]}

\* the descriptors of a Transaction batch
Desc(ct, ut, kv) == [CreateTable |-> ct, UpdateTable |-> ut, SetKVSidecar |-> kv]
CreateTableDesc(q, n) == Some([Namespace |-> q, Name |-> n, StageCreate |-> FALSE])
StagedCreateTableDesc(q, n) == Some([Namespace |-> q, Name |-> n, StageCreate |-> TRUE])
UpdateTableDesc(n, rq, up) ==
    Some([Identifier |-> [Namespace |-> NsA, Name |-> n], Requirements |-> rq, Updates |-> up])
KVDesc(v) == Some([Key |-> "x", Value |-> v])

\* one descriptor of each kind; the UpdateTable's requirement holds of a
\* table until the update itself has been committed to it
Descriptors ==
    {Desc(CreateTableDesc(CompA, NameU), None, None),
     Desc(None, UpdateTableDesc(NameT, <<AssertCurrentSchemaID(0)>>,
                                <<AddSchemaUpdate(1), SetCurrentSchemaUpdate(1)>>), None),
     Desc(None, None, KVDesc("v2"))}

\* what the JSON binding accepts besides: a descriptor with no field set,
\* one with two fields set, an UpdateTable of the table that the
\* CreateTable before it names, a CreateTable in a namespace of two levels
\* and a CreateTable with stage-create set
OddBatches ==
    {<<Desc(None, None, None)>>,
     <<Desc(CreateTableDesc(CompA \o namespaceSeparator \o CompB, NameT), None, None)>>,
     <<Desc(StagedCreateTableDesc(CompA, NameU), None, None)>>,
     <<Desc(CreateTableDesc(CompA, NameU), None, KVDesc("v2"))>>,
     <<Desc(CreateTableDesc(CompA, NameU), None, None),
       Desc(None, UpdateTableDesc(NameU, <<>>, <<SetCurrentSchemaUpdate(0)>>), None)>>}

Batches == UNION {[1..n -> Descriptors] : n \in 0..MaxBatch} \cup OddBatches
TransactionInputs == {[bad |-> TRUE, batch |-> <<>>]} \cup {[bad |-> FALSE, batch |-> b] : b \in Batches}

(***************************************************************************)
(* The catalogs the server may be started on.                              *)
(***************************************************************************)
EmptyCatalog == [ns |-> EmptyMap, tbl |-> EmptyMap, kv |-> EmptyMap]

SeedOne ==
    [ns |-> Put(Put(EmptyMap, NsA, [k \in {"k1"} |-> "v1"]), NsAB, EmptyMap),
     tbl |-> Put(EmptyMap, Ident(NsA, NameT), NewMetadata),
     kv |-> EmptyMap]

SeedTwo ==
    [ns |-> Put(EmptyMap, NsA, [k \in {"k1", "k2"} |-> "v1"]),
     tbl |-> Put(Put(EmptyMap, Ident(NsA, NameT), NewMetadata),
                 Ident(NsA, NameU), [schemas |-> {0, 1}, cur |-> 1, ver |-> 1]),
     kv |-> [k \in {"x"} |-> "v1"]]

Seeds == {EmptyCatalog, SeedOne, SeedTwo}

(***************************************************************************)
(* The server.  A request slot is a goroutine of net/http serving one      *)
(* request at a time.                                                      *)
(***************************************************************************)
Slots == {1, 2}
Idle == [op |-> "idle", pc |-> "idle", in |-> <<>>, tmp |-> <<>>]

Init ==
    /\ build \in {"old", "new"}
    /\ cat \in Seeds
    /\ fol = IF build = "new" THEN << <<>> >> ELSE <<>>
    /\ committed = <<>>
    /\ req = [p \in Slots |-> Idle]
    /\ resp = [p \in Slots |-> NoResponse]
    /\ calls = [p \in Slots |-> <<>>]
    /\ pre = [p \in Slots |-> EmptyCatalog]
    /\ nreq = 0

\* a handler that runs to its end in one catalog call
Handle(p, op, in, o) ==
    /\ req[p].pc = "idle"
    /\ nreq < MaxRequests
    /\ req' = [req EXCEPT ![p] = [op |-> op, pc |-> "done", in |-> in, tmp |-> <<>>]]
    /\ resp' = [resp EXCEPT ![p] = o.resp]
    /\ calls' = [calls EXCEPT ![p] = o.calls]
    /\ pre' = [pre EXCEPT ![p] = cat]
    /\ cat' = o.cat
    /\ nreq' = nreq + 1
    /\ UNCHANGED <<build, fol, committed>>

\* In the actions below a backend failure (inj) is tried on one request of
\* each handler, the first the server receives.
Injected(inj) == inj.nil \/ nreq = 0

DoGetConfig(p) == Handle(p, "GetConfig", <<>>, GetConfig(cat, <<>>, NoErr))

DoListNamespaces(p) ==
    \E in \in ListNamespacesInputs, inj \in Inj :
        /\ Injected(inj)
        /\ inj.nil \/ in = [bad |-> FALSE, hasParent |-> TRUE, parent |-> CompA,
                         pageSize |-> <<>>, pageToken |-> <<>>]
        /\ Handle(p, "ListNamespaces", in,
                  IF build = "old" THEN ListNamespacesOld(cat, in, inj)
                  ELSE ListNamespaces(cat, in, inj))

DoCreateNamespace(p) ==
    \E in \in CreateNamespaceInputs, inj \in Inj :
        /\ Injected(inj)
        /\ inj.nil \/ in = [bad |-> FALSE, namespace |-> NsA, properties |-> EmptyMap]
        /\ Handle(p, "CreateNamespace", in, CreateNamespace(cat, in, inj))

DoLoadNamespaceMetadata(p) ==
    \E in \in NsInputs, inj \in Inj :
        /\ Injected(inj)
        /\ inj.nil \/ in.ns = CompA
        /\ Handle(p, "LoadNamespaceMetadata", in, LoadNamespaceMetadata(cat, in, inj))

DoNamespaceExists(p) ==
    \E in \in NsInputs, inj \in Inj :
        /\ Injected(inj)
        /\ inj.nil \/ in.ns = CompA
        /\ Handle(p, "NamespaceExists", in, NamespaceExists(cat, in, inj))

DoDropNamespace(p) ==
    \E in \in NsInputs, inj \in Inj :
        /\ Injected(inj)
        /\ inj.nil \/ in.ns = CompA
        /\ Handle(p, "DropNamespace", in, DropNamespace(cat, in, inj))

DoUpdateProperties(p) ==
    \E in \in UpdatePropertiesInputs, inj \in Inj :
        /\ Injected(inj)
        /\ inj.nil \/ (in.ns = CompA /\ ~in.bad /\ in.removals = <<"k1">>)
        /\ Handle(p, "UpdateProperties", in, UpdateProperties(cat, in, inj))

DoListTables(p) ==
    \E in \in ListTablesInputs(cat) :
        Handle(p, "ListTables", in,
               IF build = "old" THEN ListTablesOld(cat, in, NoErr)
               ELSE ListTables(cat, in, NoErr))

DoCreateTable(p) ==
    \E in \in CreateTableInputs, inj \in Inj :
        /\ Injected(inj)
        /\ inj.nil \/ (in.ns = CompA /\ in.name = NameU /\ ~in.bad /\ ~in.marshalFail)
        /\ Handle(p, "CreateTable", in,
                  IF build = "old" THEN CreateTableOld(cat, in, inj)
                  ELSE CreateTable(cat, in, inj))

DoLoadTable(p) ==
    \E in \in LoadTableInputs, inj \in Inj :
        /\ Injected(inj)
        /\ inj.nil \/ (in.ns = CompA /\ in.name = NameT /\ ~in.marshalFail)
        /\ Handle(p, "LoadTable", in,
                  IF build = "old" THEN LoadTableOld(cat, in, inj)
                  ELSE LoadTable(cat, in, inj))

DoDropTable(p) ==
    \E in \in DropTableInputs, inj \in Inj :
        /\ Injected(inj)
        /\ inj.nil \/ (in.ns = CompA /\ in.name = NameT)
        /\ Handle(p, "DropTable", in, DropTable(cat, in, inj))

DoTableExists(p) ==
    \E in \in TableInputs, inj \in Inj :
        /\ Injected(inj)
        /\ inj.nil \/ (in.ns = CompA /\ in.name = NameT)
        /\ Handle(p, "TableExists", in, TableExists(cat, in, inj))

DoRenameTable(p) ==
    \E in \in RenameTableInputs, inj \in Inj :
        /\ Injected(inj)
        /\ inj.nil \/ (~in.bad /\ in.source = [Namespace |-> NsA, Name |-> NameT]
                       /\ in.destination = [Namespace |-> NsAB, Name |-> NameT])
        /\ Handle(p, "RenameTable", in, RenameTable(build, cat, in, inj))

DoSetKVSidecar(p) ==
    \E in \in SetKVInputs, inj \in Inj :
        /\ build = "new"
        /\ Injected(inj)
        /\ inj.nil \/ (~in.bad /\ in.value = "v2")
        /\ Handle(p, "SetKVSidecar", in, SetKVSidecar(cat, in, inj))

DoGetKVSidecar(p) ==
    \E in \in GetKVInputs, inj \in Inj :
        /\ build = "new"
        /\ Injected(inj)
        /\ Handle(p, "GetKVSidecar", in, GetKVSidecar(cat, in, inj))


\* UpdateTable up to the answer of LoadTable
DoUpdateTableLoad(p) ==
    \E in \in UpdateTableInputs, inj \in Inj :
        /\ Injected(inj)
        /\ inj.nil \/ (~in.bad /\ in.name = NameT /\ in.requirements = <<>>
                       /\ in.updates = <<SetCurrentSchemaUpdate(0)>> /\ ~in.marshalFail)
        /\ req[p].pc = "idle"
        /\ nreq < MaxRequests
        /\ LET l == UpdateTableLoad(cat, in, inj)
           IN /\ req' = [req EXCEPT ![p] =
                            [op |-> "UpdateTable",
                             pc |-> IF l.more THEN "commit" ELSE "done",
                             in |-> in, tmp |-> l.table]]
              /\ resp' = [resp EXCEPT ![p] = l.out.resp]
              /\ calls' = [calls EXCEPT ![p] = l.out.calls]
              /\ cat' = l.out.cat
        /\ pre' = [pre EXCEPT ![p] = cat]
        /\ nreq' = nreq + 1
        /\ UNCHANGED <<build, fol, committed>>

\* UpdateTable from CommitTable to the response
DoUpdateTableCommit(p) ==
    \E inj \in Inj :
        /\ req[p].op = "UpdateTable"
        /\ req[p].pc = "commit"
        /\ inj.nil \/ (nreq = 1 /\ req[p].in.requirements = <<>> /\ ~req[p].in.marshalFail)
        /\ LET o == UpdateTableCommit(cat, req[p].in, req[p].tmp, inj)
           IN /\ req' = [req EXCEPT ![p].pc = "done"]
              /\ resp' = [resp EXCEPT ![p] = o.resp]
              /\ calls' = [calls EXCEPT ![p] = @ \o o.calls]
              /\ cat' = o.cat
        /\ UNCHANGED <<build, fol, committed, pre, nreq>>

\* Transaction: binding the body (transaction.go lines 60-66)
DoTransactionBind(p) ==
    \E in \in TransactionInputs :
        /\ build = "new"
        /\ req[p].pc = "idle"
        /\ nreq < MaxRequests
        /\ req' = [req EXCEPT ![p] =
                      [op |-> "Transaction", pc |-> IF in.bad THEN "done" ELSE "build",
                       in |-> in, tmp |-> [i |-> 1, reqs |-> <<>>]]]
        /\ resp' = [resp EXCEPT ![p] =
                       IF in.bad THEN JSON(W0, StatusBadRequest, ErrorResponse(ErrBadRequest))
                       ELSE W0]
        /\ calls' = [calls EXCEPT ![p] = <<>>]
        /\ pre' = [pre EXCEPT ![p] = cat]
        /\ nreq' = nreq + 1
        /\ UNCHANGED <<build, cat, fol, committed>>

\* Transaction: one turn of the loop over the descriptors
DoTransactionDescriptor(p) ==
    \E inj \in {NoErr, Err({ErrNoSuchTable}, "sentinel"), Err({}, "disk failure")} :
        /\ req[p].op = "Transaction"
        /\ req[p].pc = "build"
        /\ req[p].tmp.i <= Len(req[p].in.batch)
        /\ LET r == req[p].in.batch[req[p].tmp.i]
               d == TransactionDescriptor(cat, req[p].tmp.reqs, r, inj)
           IN /\ inj.nil \/ (nreq = 1 /\ r.UpdateTable # None /\ req[p].tmp.i = 1)
              /\ req' = [req EXCEPT ![p].pc = IF d.failed THEN "done" ELSE "build",
                                    ![p].tmp = [i |-> req[p].tmp.i + 1, reqs |-> d.reqs]]
              /\ resp' = [resp EXCEPT ![p] = d.resp]
              /\ calls' = [calls EXCEPT ![p] = @ \o d.calls]
        /\ UNCHANGED <<build, cat, fol, committed, pre, nreq>>

\* Transaction: the catalog's Transaction call and the response
DoTransactionSubmit(p) ==
    \E inj \in {NoErr, Err({}, "connection refused")}, folFail \in BOOLEAN :
        /\ req[p].op = "Transaction"
        /\ req[p].pc = "build"
        /\ req[p].tmp.i > Len(req[p].in.batch)
        /\ folFail => (fol # <<>> /\ inj.nil)
        /\ LET t == TransactionSubmit(cat, req[p].tmp.reqs, fol, inj, folFail)
           IN /\ req' = [req EXCEPT ![p].pc = "done"]
              /\ resp' = [resp EXCEPT ![p] = t.out.resp]
              /\ calls' = [calls EXCEPT ![p] = @ \o t.out.calls]
              /\ cat' = t.out.cat
              /\ fol' = t.fol
              /\ committed' = IF t.primary THEN Append(committed, req[p].tmp.reqs)
                              ELSE committed
        /\ UNCHANGED <<build, pre, nreq>>

\* the handler has returned: net/http sends the response and the slot
\* takes the next request
Finish(p) ==
    /\ req[p].pc = "done"
    /\ req' = [req EXCEPT ![p] = Idle]
    /\ resp' = [resp EXCEPT ![p] = NoResponse]
    /\ calls' = [calls EXCEPT ![p] = <<>>]
    /\ pre' = [pre EXCEPT ![p] = EmptyCatalog]
    /\ UNCHANGED <<build, cat, fol, committed, nreq>>

(***************************************************************************)
(* Spec: the server handling one request at a time.                        *)
(***************************************************************************)
Step(p) ==
    \/ DoGetConfig(p)
    \/ DoListNamespaces(p)
    \/ DoCreateNamespace(p)
    \/ DoLoadNamespaceMetadata(p)
    \/ DoNamespaceExists(p)
    \/ DoDropNamespace(p)
    \/ DoUpdateProperties(p)
    \/ DoListTables(p)
    \/ DoCreateTable(p)
    \/ DoLoadTable(p)
    \/ DoDropTable(p)
    \/ DoTableExists(p)
    \/ DoRenameTable(p)
    \/ DoSetKVSidecar(p)
    \/ DoGetKVSidecar(p)
    \/ DoUpdateTableLoad(p)
    \/ DoUpdateTableCommit(p)
    \/ DoTransactionBind(p)
    \/ DoTransactionDescriptor(p)
    \/ DoTransactionSubmit(p)
    \/ Finish(p)

Next == Step(1)

Spec == Init /\ [][Next]_vars

TypeOK == nreq \in 0..MaxRequests

(***************************************************************************)
(* SpecConc: two UpdateTable requests in flight at once.  net/http runs    *)
(* each request on a goroutine of its own, so the catalog calls of the     *)
(* two handlers interleave in every order.                                 *)
(***************************************************************************)
NextConc ==
    \E p \in Slots :
        \/ DoUpdateTableLoad(p)
        \/ DoUpdateTableCommit(p)
        \/ Finish(p)

SpecConc == Init /\ [][NextConc]_vars

(***************************************************************************)
(* SpecCodec: the round trip of the namespace codec.  A client registers   *)
(* a namespace by its components (CreateNamespace takes them from the      *)
(* JSON body as they are) and names a parent by a flat string, which       *)
(* ListNamespaces decodes with strings.Split.  Components are drawn with   *)
(* and without the separator and the empty string, flat strings from all   *)
(* strings over the alphabet up to MaxFlat characters.                     *)
(***************************************************************************)
Alphabet == {"a", "b", SEP}

Components == {<<>>, <<"a">>, <<"b">>, <<"a", "b">>, <<SEP>>, <<"a", SEP>>}

Parts == UNION {[1..n -> Components] : n \in 1..MaxParts}

Flats == UNION {[1..n -> Alphabet] : n \in 0..MaxFlat}

InitCodec ==
    /\ build \in {"old", "new"}
    /\ cat = EmptyCatalog
    /\ fol = IF build = "new" THEN << <<>> >> ELSE <<>>
    /\ committed = <<>>
    /\ req = [p \in Slots |-> Idle]
    /\ resp = [p \in Slots |-> NoResponse]
    /\ calls = [p \in Slots |-> <<>>]
    /\ pre = [p \in Slots |-> EmptyCatalog]
    /\ nreq = 0

DoCreateNamespaceParts ==
    \E parts \in Parts :
        LET in == [bad |-> FALSE, namespace |-> parts, properties |-> EmptyMap]
        IN Handle(1, "CreateNamespace", in, CreateNamespace(cat, in, NoErr))

DoListNamespacesFlat ==
    \E s \in Flats :
        LET in == [bad |-> FALSE, hasParent |-> TRUE, parent |-> s,
                   pageSize |-> <<>>, pageToken |-> <<>>]
        IN Handle(2, "ListNamespaces", in,
                  IF build = "old" THEN ListNamespacesOld(cat, in, NoErr)
                  ELSE ListNamespaces(cat, in, NoErr))

NextCodec == DoCreateNamespaceParts \/ DoListNamespacesFlat

SpecCodec == InitCodec /\ [][NextCodec]_vars

(***************************************************************************)
(* Properties.                                                             *)
(***************************************************************************)
\* slot p holds the finished request of handler op
Done(p, op) == req[p].pc = "done" /\ req[p].op = op

\* the last catalog call of the request in slot p
LastCall(p) == calls[p][Len(calls[p])]

\* the catalog's Transaction call was made for the request in slot p
Submitted(p) ==
    Done(p, "Transaction") /\ calls[p] # <<>> /\ LastCall(p).m = "Transaction"

GenericError ==
    [status |-> StatusInternalServerError,
     bodies |-> <<ErrorResponse(ErrInternalServerError)>>]

(***************************************************************************)
(* C1.  Transaction is all or nothing: when the request has finished,      *)
(* either the catalog is what it was when the request arrived, or every    *)
(* operation of the batch is visible in it.  In particular a batch of a    *)
(* CreateTable that would succeed and a later UpdateTable whose            *)
(* requirement fails leaves the table non-existent and the catalog as it   *)
(* was.                                                                    *)
(***************************************************************************)
\* the effect of descriptor d is visible in catalog c, which was c0
Visible(c0, c, d) ==
    /\ d.CreateTable # None =>
          LET ident == Ident(Split(d.CreateTable[1].Namespace), d.CreateTable[1].Name)
          IN ident \notin DOMAIN c0.tbl /\ ident \in DOMAIN c.tbl
    /\ d.UpdateTable # None =>
          LET u == d.UpdateTable[1]
              ident == Ident(u.Identifier.Namespace, u.Identifier.Name)
          IN /\ ident \in DOMAIN c0.tbl
             /\ ident \in DOMAIN c.tbl
             /\ c.tbl[ident].ver > c0.tbl[ident].ver
             /\ ApplyUpdates(c.tbl[ident], u.Updates) = [ok |-> TRUE, meta |-> c.tbl[ident]]
    /\ d.SetKVSidecar # None =>
          /\ d.SetKVSidecar[1].Key \in DOMAIN c.kv
          /\ c.kv[d.SetKVSidecar[1].Key] = d.SetKVSidecar[1].Value

\* the batch is a CreateTable that would succeed on c0 and then an
\* UpdateTable of an existing table with a requirement that fails on c0
CreateThenFailingUpdate(c0, batch) ==
    /\ Len(batch) = 2
    /\ batch[1].CreateTable # None
    /\ batch[1].UpdateTable = None
    /\ batch[1].SetKVSidecar = None
    /\ CatCreateTable(c0, Ident(Split(batch[1].CreateTable[1].Namespace),
                                batch[1].CreateTable[1].Name)).err.nil
    /\ batch[2].UpdateTable # None
    /\ LET u == batch[2].UpdateTable[1]
           ident == Ident(u.Identifier.Namespace, u.Identifier.Name)
       IN /\ ident \in DOMAIN c0.tbl
          /\ \E i \in DOMAIN u.Requirements :
                ~RequirementHolds(c0.tbl[ident], u.Requirements[i])

C1_AllOrNothing ==
    \A p \in Slots :
        (Done(p, "Transaction") /\ ~req[p].in.bad) =>
            /\ \/ cat = pre[p]
               \/ \A i \in DOMAIN req[p].in.batch : Visible(pre[p], cat, req[p].in.batch[i])
            /\ CreateThenFailingUpdate(pre[p], req[p].in.batch) =>
                  /\ cat = pre[p]
                  /\ Ident(Split(req[p].in.batch[1].CreateTable[1].Namespace),
                           req[p].in.batch[1].CreateTable[1].Name) \notin DOMAIN cat.tbl

\* the catalog's Transaction call has failed on a batch of a CreateTable
\* that would have succeeded and an UpdateTable whose requirement fails
C1_Witness ==
    \E p \in Slots :
        /\ Submitted(p)
        /\ ~LastCall(p).err.nil
        /\ CreateThenFailingUpdate(pre[p], req[p].in.batch)

(***************************************************************************)
(* C2.  The batch handed to the catalog's Transaction call holds exactly   *)
(* one TransactionRequest per descriptor of the request, of the            *)
(* descriptor's kind, in the order of the descriptors.                     *)
(***************************************************************************)
KindOf(d) ==
    IF d.CreateTable # None THEN "CreateTable"
    ELSE IF d.UpdateTable # None THEN "CommitTable"
         ELSE "SetKVSidecar"

C2_OneRequestPerDescriptor ==
    \A p \in Slots :
        Submitted(p) =>
            /\ Len(req[p].tmp.reqs) = Len(req[p].in.batch)
            /\ \A i \in DOMAIN req[p].in.batch :
                  req[p].tmp.reqs[i].kind = KindOf(req[p].in.batch[i])

(***************************************************************************)
(* C3.  Two UpdateTable requests handled concurrently on the same table    *)
(* with the same requirement, which held when each loaded the table and    *)
(* which the updates of either invalidate: exactly one of the two commits  *)
(* fails, the request that lost is answered with a conflict, the other     *)
(* with success, and the table is what the winner's commit alone made of   *)
(* it.                                                                     *)
(***************************************************************************)
\* the request in slot p loaded the table, found its requirements to hold,
\* and called CommitTable with updates after which they hold no more
Raced(p) ==
    /\ Done(p, "UpdateTable")
    /\ ~req[p].in.bad
    /\ calls[p] # <<>>
    /\ LastCall(p).m = "CommitTable"
    /\ req[p].in.requirements # <<>>
    /\ \A i \in DOMAIN req[p].in.requirements :
          RequirementHolds(req[p].tmp.meta, req[p].in.requirements[i])
    /\ LET a == ApplyUpdates(req[p].tmp.meta, req[p].in.updates)
       IN /\ a.ok
          /\ \E i \in DOMAIN req[p].in.requirements :
                ~RequirementHolds(a.meta, req[p].in.requirements[i])

C3_ConcurrentCommitsConflict ==
    (/\ Raced(1)
     /\ Raced(2)
     /\ req[1].in.ns = req[2].in.ns
     /\ req[1].in.name = req[2].in.name
     /\ req[1].in.requirements = req[2].in.requirements) =>
        \E w, l \in Slots :
            /\ w # l
            /\ LastCall(w).err.nil
            /\ ~LastCall(l).err.nil
            /\ resp[w].status = StatusOK
            /\ resp[l].status = StatusConflict
            /\ cat.tbl[req[w].tmp.ident] = resp[w].bodies[1].data.meta

(***************************************************************************)
(* C4.  An UpdateTable request with a requirement that does not hold of    *)
(* the table: the commit is rejected, the catalog is as it was, and the    *)
(* response is an error that identifies the requirement failure, not the   *)
(* generic internal error.                                                 *)
(***************************************************************************)
\* the request in slot p reached CommitTable with a requirement that did
\* not hold of the table when the request arrived
RequirementFails(p) ==
    /\ Done(p, "UpdateTable")
    /\ ~req[p].in.bad
    /\ calls[p] # <<>>
    /\ LastCall(p).m = "CommitTable"
    /\ LET ident == Ident(Split(req[p].in.ns), req[p].in.name)
       IN /\ ident \in DOMAIN pre[p].tbl
          /\ \E i \in DOMAIN req[p].in.requirements :
                ~RequirementHolds(pre[p].tbl[ident], req[p].in.requirements[i])

C4_RequirementFailureSurfaced ==
    \A p \in Slots :
        RequirementFails(p) =>
            /\ cat = pre[p]
            /\ resp[p].status \notin 200..299
            /\ Len(resp[p].bodies) = 1
            /\ resp[p].bodies[1].kind = "error"
            /\ resp[p].bodies[1].error # ErrInternalServerError

(***************************************************************************)
(* C5.  The followers receive a batch only in the step in which the        *)
(* primary catalog commits it, and it is that batch they receive: a        *)
(* Transaction whose primary commit fails leaves every follower as it      *)
(* was.                                                                    *)
(***************************************************************************)
C5_FollowersAfterPrimary ==
    [][\A i \in DOMAIN fol :
          fol'[i] # fol[i] =>
              /\ Len(committed') = Len(committed) + 1
              /\ fol'[i] = Append(fol[i], committed'[Len(committed')])]_vars

\* a follower holds a batch the primary committed, and a later
\* Transaction whose primary commit failed has left it so
C5_Witness ==
    \E p \in Slots :
        /\ Submitted(p)
        /\ ~LastCall(p).err.nil
        /\ req[p].tmp.reqs # <<>>
        /\ cat = pre[p]
        /\ fol # <<>>
        /\ fol[1] # <<>>
        /\ fol[1][1] # <<>>
        /\ fol[1] = committed

(***************************************************************************)
(* C6.  A Transaction whose primary committed and whose follower           *)
(* propagation failed is not answered with the status and error body       *)
(* that the same batch is answered with when the primary commit fails.     *)
(***************************************************************************)
C6_OutcomesDistinguished ==
    \A p \in Slots :
        (Submitted(p) /\ LastCall(p).err = ErrFollower) =>
            resp[p] # TransactionSubmit(pre[p], req[p].tmp.reqs, <<>>,
                                        Err({}, "connection refused"), FALSE).out.resp

(***************************************************************************)
(* C7.  When the enumeration of the tables yields an error, at whatever    *)
(* position, ListTables consumes nothing past that element and the         *)
(* response is status 500 with the generic error body and nothing else:    *)
(* no 200, none of the identifiers buffered before the error.              *)
(***************************************************************************)
\* the pairs the catalog's iterator held for the request in slot p
IteratorOf(p) ==
    CatListTables(pre[p], Split(req[p].in.ns), req[p].in.order, req[p].in.failAt,
                  req[p].in.withID, req[p].in.err)

\* the positions of the errors in an iterator
ErrorsAt(it) == {i \in DOMAIN it : ~it[i].err.nil}

C7_ListTablesStopsAtError ==
    \A p \in Slots :
        (Done(p, "ListTables") /\ ErrorsAt(IteratorOf(p)) # {}) =>
            LET it == IteratorOf(p)
                e == CHOOSE i \in ErrorsAt(it) : \A j \in ErrorsAt(it) : i <= j
            IN /\ calls[p] = <<K("ListTables", NoErr)>> \o Yields(it, e)
               /\ resp[p] = GenericError

(***************************************************************************)
(* C8.  An UpdateProperties request with a key both in removals and in     *)
(* updates is answered 422 with the DuplicateKey error, the handler makes  *)
(* no catalog call, and the catalog, the namespace's properties with it,   *)
(* is as it was.                                                           *)
(***************************************************************************)
\* the request in slot p names a key in removals and in updates
Overlaps(p) ==
    /\ Done(p, "UpdateProperties")
    /\ ~req[p].in.bad
    /\ Range(req[p].in.removals) \cap DOMAIN req[p].in.updates # {}

C8_DuplicateKeyRejected ==
    \A p \in Slots :
        Overlaps(p) =>
            /\ resp[p] = [status |-> StatusUnprocessableEntity,
                          bodies |-> <<ErrorResponse(ErrUnprocessableEntityDuplicateKey)>>]
            /\ calls[p] = <<>>
            /\ cat = pre[p]

\* the overlapping key is not the first removal, and it is a property of
\* the namespace, which exists
C8_Witness ==
    \E p \in Slots :
        /\ Overlaps(p)
        /\ req[p].in.removals[1] \notin DOMAIN req[p].in.updates
        /\ Split(req[p].in.ns) \in DOMAIN cat.ns
        /\ \E k \in Range(req[p].in.removals) \cap DOMAIN req[p].in.updates :
              k \in DOMAIN cat.ns[Split(req[p].in.ns)]
        /\ resp[p].status = StatusUnprocessableEntity

(***************************************************************************)
(* C9.  A request whose catalog call failed with a sentinel of the         *)
(* taxonomy is answered with the taxonomy's status and error entry for     *)
(* that sentinel, in every handler.  Stated of the failures the catalog    *)
(* answers a method call with by itself, which each wrap one sentinel;     *)
(* the errors an iterator yields are the subject of C7.                    *)
(***************************************************************************)
\* err is a failure the catalog answered with, not one of its backend
FromCatalog(err) ==
    err.text \in {"no such namespace", "namespace already exists", "namespace not empty",
                  "no such table", "table already exists"}

Taxonomy(sentinel) ==
    IF sentinel = ErrNoSuchNamespace THEN ErrNamespaceNotFound
    ELSE IF sentinel = ErrNamespaceAlreadyExistsCat THEN ErrNamespaceAlreadyExists
    ELSE IF sentinel = ErrNamespaceNotEmptyCat THEN ErrNamespaceNotEmpty
    ELSE IF sentinel = ErrNoSuchTable THEN ErrTableNotFound
    ELSE ErrTableAlreadyExists

C9_SentinelsMapped ==
    \A p \in Slots :
        (/\ req[p].pc = "done"
         /\ calls[p] # <<>>
         /\ LastCall(p).m # "yield"
         /\ FromCatalog(LastCall(p).err)
         /\ Cardinality(LastCall(p).err.is) = 1) =>
            LET entry == Taxonomy(CHOOSE x \in LastCall(p).err.is : TRUE)
            IN /\ resp[p].status = entry.code
               /\ resp[p].bodies # <<>>
               /\ resp[p].bodies[1] = ErrorResponse(entry)

(***************************************************************************)
(* C10.  Every response that is not 2xx carries an error body whose code   *)
(* is the HTTP status of the response.                                     *)
(***************************************************************************)
C10_CodeIsStatus ==
    \A p \in Slots :
        (req[p].pc = "done" /\ resp[p].status \notin 200..299) =>
            /\ resp[p].bodies # <<>>
            /\ resp[p].bodies[1].kind = "error"
            /\ resp[p].bodies[1].error.code = resp[p].status

(***************************************************************************)
(* C11.  A request whose catalog call failed with an error that wraps no   *)
(* known sentinel is answered with status 500 and the fixed generic        *)
(* InternalServerError entry, whatever the text of the failure: two such   *)
(* failures that differ in their text alone get the same response, and no  *)
(* error entry of the response is anything but the fixed one.              *)
(***************************************************************************)
\* some catalog call of the request in slot p failed with no known sentinel
UnknownFailure(p) ==
    \E i \in DOMAIN calls[p] : ~calls[p][i].err.nil /\ calls[p][i].err.is = {}

C11_UnknownFailureIsGeneric ==
    \A p \in Slots :
        (req[p].pc = "done" /\ UnknownFailure(p)) =>
            /\ resp[p].status = StatusInternalServerError
            /\ resp[p].bodies # <<>>
            /\ resp[p].bodies[1] = ErrorResponse(ErrInternalServerError)
            /\ \A i \in DOMAIN resp[p].bodies :
                  resp[p].bodies[i].kind = "error" =>
                      resp[p].bodies[i] = ErrorResponse(ErrInternalServerError)

\* DropTable of an existing table met a backend failure of either text
C11_Witness ==
    \E p \in Slots :
        /\ Done(p, "DropTable")
        /\ calls[p] # <<>>
        /\ LastCall(p).err.is = {}
        /\ LastCall(p).err.text \in {"disk failure", "connection refused"}
        /\ Ident(Split(req[p].in.ns), req[p].in.name) \in DOMAIN pre[p].tbl
        /\ resp[p] = GenericError

(***************************************************************************)
(* C12.  A DropTable request that asks for a purge is answered with HTTP   *)
(* status 501 and the NotImplemented entry, without a call of the          *)
(* catalog's DropTable, and the catalog, the table included, is as it was  *)
(* before the request.                                                     *)
(***************************************************************************)
NotImplementedResponse ==
    [status |-> StatusNotImplemented, bodies |-> <<ErrorResponse(ErrNotImplemented)>>]

C12_PurgeNotImplemented ==
    \A p \in Slots :
        (Done(p, "DropTable") /\ req[p].in.name # <<>> /\ req[p].in.purge) =>
            /\ resp[p] = NotImplementedResponse
            /\ calls[p] = <<>>
            /\ cat = pre[p]

(***************************************************************************)
(* C13.  A CreateTable request with stage-create set is answered with 501  *)
(* and the NotImplemented entry, without a call of the catalog's           *)
(* CreateTable, and the catalog is as it was before the request: a table   *)
(* of that identifier exists afterwards only if it existed before.         *)
(***************************************************************************)
C13_StageCreateNotImplemented ==
    \A p \in Slots :
        (Done(p, "CreateTable") /\ ~req[p].in.bad /\ req[p].in.stage) =>
            /\ resp[p] = NotImplementedResponse
            /\ calls[p] = <<>>
            /\ cat = pre[p]
            /\ LET ident == Ident(Split(req[p].in.ns), req[p].in.name)
               IN ident \in DOMAIN cat.tbl <=> ident \in DOMAIN pre[p].tbl

\* stage-create of a table that is absent from a namespace that exists, in
\* the snapshot of models.go
C13_Witness ==
    \E p \in Slots :
        /\ build = "new"
        /\ Done(p, "CreateTable") /\ ~req[p].in.bad /\ req[p].in.stage
        /\ Split(req[p].in.ns) \in DOMAIN pre[p].ns
        /\ Ident(Split(req[p].in.ns), req[p].in.name) \notin DOMAIN cat.tbl
        /\ resp[p].status = StatusNotImplemented

(***************************************************************************)
(* C14.  A RenameTable request whose source and destination both name      *)
(* existing tables is answered with an error response, and afterwards      *)
(* both tables exist with the metadata they had before: the destination    *)
(* is not overwritten and the source is not removed.                       *)
(***************************************************************************)
SourceOf(p) == Ident(req[p].in.source.Namespace, req[p].in.source.Name)
DestinationOf(p) == Ident(req[p].in.destination.Namespace, req[p].in.destination.Name)

C14_RenameOverExistingFails ==
    \A p \in Slots :
        (/\ Done(p, "RenameTable") /\ ~req[p].in.bad
         /\ SourceOf(p) \in DOMAIN pre[p].tbl
         /\ DestinationOf(p) \in DOMAIN pre[p].tbl) =>
            /\ resp[p].status \notin 200..299
            /\ resp[p].bodies # <<>>
            /\ resp[p].bodies[1].kind = "error"
            /\ SourceOf(p) \in DOMAIN cat.tbl
            /\ DestinationOf(p) \in DOMAIN cat.tbl
            /\ cat.tbl[SourceOf(p)] = pre[p].tbl[SourceOf(p)]
            /\ cat.tbl[DestinationOf(p)] = pre[p].tbl[DestinationOf(p)]
            /\ cat = pre[p]

\* the catalog itself refused a rename between two tables of different
\* metadata
C14_Witness ==
    \E p \in Slots :
        /\ Done(p, "RenameTable") /\ ~req[p].in.bad
        /\ SourceOf(p) # DestinationOf(p)
        /\ SourceOf(p) \in DOMAIN pre[p].tbl
        /\ DestinationOf(p) \in DOMAIN pre[p].tbl
        /\ pre[p].tbl[SourceOf(p)] # pre[p].tbl[DestinationOf(p)]
        /\ calls[p] # <<>>
        /\ LastCall(p).err = Err({ErrTableAlreadyExistsCat}, "table already exists")
        /\ resp[p].status \notin 200..299

(***************************************************************************)
(* C17.  After RenameTable of an existing table A to an identifier B that  *)
(* names no table, in a namespace that exists, the existence check of A    *)
(* answers 404 and that of B answers success, and RenameTable of B to A    *)
(* brings the catalog back to what it was before the first rename.         *)
(***************************************************************************)
\* the request TableExists gets for the table ident
ExistsRequest(ident) ==
    [ns |-> Join(NamespaceOf(ident)), name |-> ident[Len(ident)]]

\* the catalog answered the last call of slot p itself, no backend failed
Answered(p) ==
    calls[p] # <<>> /\ (LastCall(p).err.nil \/ FromCatalog(LastCall(p).err))

C17_RenameRoundTrip ==
    \A p \in Slots :
        (/\ Done(p, "RenameTable") /\ ~req[p].in.bad /\ Answered(p)
         /\ SourceOf(p) \in DOMAIN pre[p].tbl
         /\ DestinationOf(p) \notin DOMAIN pre[p].tbl
         /\ NamespaceOf(DestinationOf(p)) \in DOMAIN pre[p].ns) =>
            /\ resp[p].status \in 200..299
            /\ TableExists(cat, ExistsRequest(SourceOf(p)), NoErr).resp.status
                   = StatusNotFound
            /\ TableExists(cat, ExistsRequest(DestinationOf(p)), NoErr).resp.status
                   = StatusNoContent
            /\ cat.tbl[DestinationOf(p)] = pre[p].tbl[SourceOf(p)]
            /\ RenameTable(build, cat,
                           [bad |-> FALSE, source |-> req[p].in.destination,
                            destination |-> req[p].in.source], NoErr).cat = pre[p]

\* a rename into another namespace, with a second table left in place
C17_Witness ==
    \E p \in Slots :
        /\ Done(p, "RenameTable") /\ ~req[p].in.bad /\ Answered(p)
        /\ SourceOf(p) \in DOMAIN pre[p].tbl
        /\ DestinationOf(p) \notin DOMAIN pre[p].tbl
        /\ NamespaceOf(DestinationOf(p)) # NamespaceOf(SourceOf(p))
        /\ DestinationOf(p) \in DOMAIN cat.tbl
        /\ SourceOf(p) \notin DOMAIN cat.tbl
        /\ cat # pre[p]
        /\ resp[p].status = RenameTableStatus(build)

(***************************************************************************)
(* C15.  CreateNamespace of a namespace the catalog does not hold          *)
(* succeeds and registers it with the properties of the request;           *)
(* CreateNamespace of a namespace the catalog holds, whatever requests     *)
(* came since it was created, is answered with 409 and the                 *)
(* NamespaceAlreadyExists entry, and the catalog, the namespace and its    *)
(* properties included, is as it was before.                               *)
(***************************************************************************)
C15_CreateTwiceConflicts ==
    \A p \in Slots :
        (Done(p, "CreateNamespace") /\ ~req[p].in.bad /\ Answered(p)) =>
            LET ns == req[p].in.namespace
            IN IF ns \in DOMAIN pre[p].ns
               THEN /\ resp[p] = [status |-> StatusConflict,
                                  bodies |-> <<ErrorResponse(ErrNamespaceAlreadyExists)>>]
                    /\ cat = pre[p]
                    /\ cat.ns[ns] = pre[p].ns[ns]
               ELSE /\ resp[p].status = StatusOK
                    /\ cat = [pre[p] EXCEPT !.ns = Put(@, ns, req[p].in.properties)]

\* the second of two requests: namespace a, created by the first in an
\* empty catalog, is created again with other properties
C15_Witness ==
    \E p \in Slots :
        /\ Done(p, "CreateNamespace") /\ ~req[p].in.bad /\ Answered(p)
        /\ nreq = 2
        /\ req[p].in.namespace = NsA
        /\ DOMAIN pre[p].ns = {NsA} /\ pre[p].tbl = EmptyMap /\ pre[p].kv = EmptyMap
        /\ req[p].in.properties # pre[p].ns[NsA]
        /\ resp[p].status = StatusConflict
        /\ cat = pre[p]

(***************************************************************************)
(* C16.  DropNamespace of a namespace that holds a table or a child        *)
(* namespace is answered with 409 and the NamespaceNotEmpty entry and      *)
(* removes nothing; of an absent namespace, with 404; of an empty          *)
(* namespace, with 204, and the namespace is gone.  An existence check     *)
(* answers 404 exactly when the catalog does not hold the namespace, and   *)
(* a namespace the catalog does not hold comes into it by a                *)
(* CreateNamespace request alone: every existence check after the drop     *)
(* answers 404 until the namespace is created again.                       *)
(***************************************************************************)
DropOutcome(p) ==
    (Done(p, "DropNamespace") /\ Answered(p)) =>
        LET ns == Split(req[p].in.ns)
        IN IF ns \notin DOMAIN pre[p].ns
           THEN /\ resp[p] = [status |-> StatusNotFound,
                              bodies |-> <<ErrorResponse(ErrNamespaceNotFound)>>]
                /\ cat = pre[p]
           ELSE IF HasChildren(pre[p], ns)
                THEN /\ resp[p] = [status |-> StatusConflict,
                                   bodies |-> <<ErrorResponse(ErrNamespaceNotEmpty)>>]
                     /\ cat = pre[p]
                ELSE /\ resp[p] = [status |-> StatusNoContent, bodies |-> <<>>]
                     /\ cat = [pre[p] EXCEPT !.ns = Del(@, ns)]
                     /\ NamespaceExists(cat, req[p].in, NoErr).resp.status = StatusNotFound

ExistsOutcome(p) ==
    (Done(p, "NamespaceExists") /\ Answered(p)) =>
        /\ cat = pre[p]
        /\ resp[p].status =
              IF Split(req[p].in.ns) \in DOMAIN cat.ns THEN StatusNoContent
              ELSE StatusNotFound

\* a step that brings a namespace into the catalog is a CreateNamespace
\* request of that namespace
OnlyCreateAdds ==
    \A ns \in (DOMAIN cat'.ns) \ (DOMAIN cat.ns) :
        \E p \in Slots :
            /\ req[p].pc = "idle"
            /\ req'[p].pc = "done" /\ req'[p].op = "CreateNamespace"
            /\ req'[p].in.namespace = ns

C16_DropNamespace ==
    /\ [](\A p \in Slots : DropOutcome(p) /\ ExistsOutcome(p))
    /\ [][OnlyCreateAdds]_vars

\* the second of two requests: the existence check of a.b answers 404
\* after a.b, which was empty, was dropped by the first
C16_Witness ==
    \E p \in Slots :
        /\ Done(p, "NamespaceExists") /\ Answered(p)
        /\ nreq = 2
        /\ Split(req[p].in.ns) = NsAB
        /\ cat = [SeedOne EXCEPT !.ns = Del(@, NsAB)]
        /\ resp[p].status = StatusNotFound

(***************************************************************************)
(* C18.  In the response of every successful UpdateProperties request,     *)
(* each key of the removal list is in exactly one of Removed and Missing:  *)
(* in Removed if the namespace had the property before the request, in     *)
(* Missing otherwise.  Removed and Missing are disjoint and hold no key    *)
(* from outside the removal list.                                          *)
(***************************************************************************)
\* the summary in the response of slot p
Summary(p) == resp[p].bodies[1].data

C18_RemovalsPartitioned ==
    \A p \in Slots :
        (Done(p, "UpdateProperties") /\ resp[p].status = StatusOK) =>
            LET before == DOMAIN pre[p].ns[Split(req[p].in.ns)]
                asked == Range(req[p].in.removals)
            IN /\ \A k \in asked :
                     /\ k \in Summary(p).Removed <=> k \in before
                     /\ k \in Summary(p).Missing <=> k \notin before
               /\ Summary(p).Removed \cap Summary(p).Missing = {}
               /\ Summary(p).Removed \cup Summary(p).Missing = asked

\* a removal list of which one key existed and one did not
C18_Witness ==
    \E p \in Slots :
        /\ Done(p, "UpdateProperties") /\ resp[p].status = StatusOK
        /\ Summary(p).Removed # {}
        /\ Summary(p).Missing # {}
        /\ Len(req[p].in.removals) = 2

(***************************************************************************)
(* C19.  A ListNamespaces response to a request with a page size holds at  *)
(* most that many namespaces, and its next-page-token is non-null exactly  *)
(* when namespaces that match the request remain after the page.           *)
(***************************************************************************)
\* the namespaces that match the request in slot p
Matching(p) ==
    CatListNamespaces(pre[p], IF req[p].in.hasParent THEN Split(req[p].in.parent)
                              ELSE <<>>).val

WellFormed(parts) ==
    /\ Len(parts) >= 1
    /\ \A i \in DOMAIN parts :
          /\ parts[i] # <<>>
          /\ \A j \in DOMAIN parts[i] : parts[i][j] # SEP

C20_CodecRoundTrip ==
    /\ \A parts \in DOMAIN cat.ns :
          WellFormed(parts) => Split(Join(parts)) = parts
    /\ \A p \in Slots :
          (Done(p, "ListNamespaces") /\ ~req[p].in.bad /\ req[p].in.hasParent) =>
              LET s == req[p].in.parent
              IN /\ WellFormed(Split(s)) => Join(Split(s)) = s
                 /\ \A parts \in DOMAIN pre[p].ns :
                       (WellFormed(parts) /\ s = Join(parts)) =>
                           resp[p].status = StatusOK

\* a namespace of two components was registered and then named as the
\* parent by its joined string
C20_Witness ==
    \E p \in Slots :
        /\ Done(p, "ListNamespaces") /\ req[p].in.hasParent
        /\ \E parts \in DOMAIN pre[p].ns :
              /\ WellFormed(parts) /\ Len(parts) = 2
              /\ parts[1] # parts[2]
              /\ req[p].in.parent = Join(parts)
              /\ Split(req[p].in.parent) = parts
        /\ resp[p].status = StatusOK

(***************************************************************************)
(* C21.  In every table handler (CreateTable, LoadTable, UpdateTable,      *)
(* DropTable, TableExists, RenameTable) a catalog failure that matches     *)
(* both ErrNoSuchNamespace and ErrNoSuchTable is answered with 404 and     *)
(* the NamespaceNotFound entry; no body of the response is the             *)
(* TableNotFound entry.                                                    *)
(***************************************************************************)
TableHandlers ==
    {"CreateTable", "LoadTable", "UpdateTable", "DropTable", "TableExists", "RenameTable"}

\* the last catalog call of slot p failed with an error that wraps both
\* not-found sentinels
BothNotFound(p) ==
    /\ req[p].pc = "done" /\ req[p].op \in TableHandlers
    /\ calls[p] # <<>>
    /\ {ErrNoSuchNamespace, ErrNoSuchTable} \subseteq LastCall(p).err.is

C21_NamespaceNotFoundFirst ==
    \A p \in Slots :
        BothNotFound(p) =>
            /\ resp[p].status = StatusNotFound
            /\ resp[p].bodies = <<ErrorResponse(ErrNamespaceNotFound)>>
            /\ \A i \in DOMAIN resp[p].bodies :
                  resp[p].bodies[i] # ErrorResponse(ErrTableNotFound)

\* the failure came from the CommitTable call of UpdateTable, after a
\* LoadTable that succeeded
C21_Witness ==
    \E p \in Slots :
        /\ BothNotFound(p)
        /\ req[p].op = "UpdateTable"
        /\ Len(calls[p]) = 2
        /\ LastCall(p).m = "CommitTable"
        /\ resp[p].bodies[1] = ErrorResponse(ErrNamespaceNotFound)

(***************************************************************************)
(* C22.  Whatever requests came before, an existence check of a namespace  *)
(* or of a table answers 204 exactly when the catalog holds that           *)
(* namespace or table at the time of the check, and 404 otherwise; it has  *)
(* no body when it answers 204.                                            *)
(***************************************************************************)
C22_ExistsReflectsCatalog ==
    \A p \in Slots :
        /\ (Done(p, "NamespaceExists") /\ Answered(p)) =>
               IF Split(req[p].in.ns) \in DOMAIN pre[p].ns
               THEN resp[p] = [status |-> StatusNoContent, bodies |-> <<>>]
               ELSE resp[p].status = StatusNotFound
        /\ (Done(p, "TableExists") /\ Answered(p)) =>
               IF Ident(Split(req[p].in.ns), req[p].in.name) \in DOMAIN pre[p].tbl
               THEN resp[p] = [status |-> StatusNoContent, bodies |-> <<>>]
               ELSE resp[p].status = StatusNotFound

\* the second of two requests: the existence check of table a.t answers
\* 404 after the first dropped it
C22_Witness ==
    \E p \in Slots :
        /\ Done(p, "TableExists") /\ Answered(p)
        /\ nreq = 2
        /\ Ident(Split(req[p].in.ns), req[p].in.name) = Ident(NsA, NameT)
        /\ cat = [SeedOne EXCEPT !.tbl = EmptyMap]
        /\ resp[p].status = StatusNotFound

(***************************************************************************)
(* C23.  After a successful UpdateProperties with removals R and updates   *)
(* U, LoadNamespaceMetadata of the namespace answers 200 with a property   *)
(* map in which every key of U has its value of U, no key of R is          *)
(* present, and every other key is there exactly if it was there before,   *)
(* with the value it had.                                                  *)
(***************************************************************************)
\* what LoadNamespaceMetadata answers for the namespace of slot p now
LoadedNow(p) == LoadNamespaceMetadata(cat, [ns |-> req[p].in.ns], NoErr).resp

C23_UpdateThenLoad ==
    \A p \in Slots :
        (Done(p, "UpdateProperties") /\ resp[p].status = StatusOK) =>
            LET R == Range(req[p].in.removals)
                U == req[p].in.updates
                old == pre[p].ns[Split(req[p].in.ns)]
                props == LoadedNow(p).bodies[1].data.properties
            IN /\ LoadedNow(p).status = StatusOK
               /\ \A k \in DOMAIN U : k \in DOMAIN props /\ props[k] = U[k]
               /\ \A k \in R : k \notin DOMAIN props
               /\ \A k \in (DOMAIN old) \ (R \cup DOMAIN U) :
                     k \in DOMAIN props /\ props[k] = old[k]
               /\ DOMAIN props \subseteq (DOMAIN old) \cup (DOMAIN U)

\* a key removed, a key that takes a new value, and a change of the map
C23_Witness ==
    \E p \in Slots :
        /\ Done(p, "UpdateProperties") /\ resp[p].status = StatusOK
        /\ Range(req[p].in.removals) \cap DOMAIN pre[p].ns[Split(req[p].in.ns)] # {}
        /\ \E k \in DOMAIN req[p].in.updates :
              /\ k \in DOMAIN pre[p].ns[Split(req[p].in.ns)]
              /\ pre[p].ns[Split(req[p].in.ns)][k] # req[p].in.updates[k]
              /\ LoadedNow(p).bodies[1].data.properties[k] = req[p].in.updates[k]

(***************************************************************************)
(* C24.  UpdateTable hands the catalog's CommitTable the requirements and  *)
(* the updates of the request as submitted: a commit on a table whose      *)
(* requirements hold and whose updates apply one after the other in the    *)
(* submitted order is answered with 200, the table's metadata is the       *)
(* result of applying the updates in that order, and the response reports  *)
(* that metadata; when the updates do not apply in the submitted order     *)
(* the table is left as it was.                                            *)
(***************************************************************************)
\* no call of slot p met a failure of the backend
NoBackendFailure(p) ==
    \A i \in DOMAIN calls[p] :
        \/ calls[p][i].err.nil
        \/ FromCatalog(calls[p][i].err)
        \/ calls[p][i].err \in {ErrRequirementFailed, ErrUpdateFailed}

\* the table the UpdateTable request of slot p names
Target(p) == Ident(Split(req[p].in.ns), req[p].in.name)

RequirementsHold(p) ==
    \A i \in DOMAIN req[p].in.requirements :
        RequirementHolds(pre[p].tbl[Target(p)], req[p].in.requirements[i])

MarshalFailed(p) ==
    /\ req[p].pc = "done" /\ req[p].op \in {"CreateTable", "UpdateTable"}
    /\ ~req[p].in.bad /\ req[p].in.marshalFail
    /\ calls[p] # <<>>
    /\ \A i \in DOMAIN calls[p] : calls[p][i].err.nil

C25_MarshalFailureIs500 ==
    \A p \in Slots :
        MarshalFailed(p) =>
            /\ resp[p] = GenericError
            /\ resp[p].status \notin 200..299
            /\ Target(p) \in DOMAIN cat.tbl
            /\ cat # pre[p]
            /\ IF req[p].op = "CreateTable"
               THEN cat = [pre[p] EXCEPT !.tbl = Put(@, Target(p), NewMetadata)]
               ELSE cat.tbl[Target(p)].ver = pre[p].tbl[Target(p)].ver + 1

\* a commit was made and the response could not be serialised
C25_Witness ==
    \E p \in Slots :
        /\ MarshalFailed(p) /\ req[p].op = "UpdateTable"
        /\ LastCall(p).m = "CommitTable"
        /\ cat.tbl[Target(p)] # pre[p].tbl[Target(p)]
        /\ resp[p].status = StatusInternalServerError

\* a table was created and the response could not be serialised
C25_CreateCase ==
    \E p \in Slots :
        /\ MarshalFailed(p) /\ req[p].op = "CreateTable"
        /\ Target(p) \notin DOMAIN pre[p].tbl

(***************************************************************************)
(* C26.  In Transaction the table of every UpdateTable descriptor is       *)
(* loaded from the catalog before its CommitTable request is built: the    *)
(* batch holds one CommitTable request for each LoadTable that succeeded.  *)
(* When the LoadTable of a descriptor fails, the request is answered with  *)
(* an error, the catalog's Transaction is not called, and the catalog is   *)
(* as it was before the request, also when the table named is one that a   *)
(* CreateTable earlier in the same batch would create.                     *)
(***************************************************************************)
\* the LoadTable of some descriptor of the request in slot p failed
LoadFailed(p) ==
    /\ req[p].op = "Transaction"
    /\ \E i \in DOMAIN calls[p] : calls[p][i].m = "LoadTable" /\ ~calls[p][i].err.nil

C26_LoadBeforeCommitRequest ==
    \A p \in Slots :
        /\ (req[p].op = "Transaction" /\ ~req[p].in.bad) =>
               Cardinality({j \in DOMAIN req[p].tmp.reqs :
                               req[p].tmp.reqs[j].kind = "CommitTable"})
                 = Cardinality({i \in DOMAIN calls[p] :
                                   calls[p][i].m = "LoadTable" /\ calls[p][i].err.nil})
        /\ LoadFailed(p) =>
               /\ req[p].pc = "done"
               /\ resp[p].status \notin 200..299
               /\ resp[p].bodies # <<>>
               /\ resp[p].bodies[1].kind = "error"
               /\ \A i \in DOMAIN calls[p] : calls[p][i].m # "Transaction"
               /\ LastCall(p).m = "LoadTable"
               /\ cat = pre[p]

\* the batch creates table a.u and then updates it: the catalog, which
\* does not hold a.u, fails the LoadTable
C26_Witness ==
    \E p \in Slots :
        /\ LoadFailed(p) /\ req[p].pc = "done"
        /\ Len(req[p].in.batch) = 2
        /\ req[p].in.batch[1].CreateTable # None
        /\ req[p].in.batch[2].UpdateTable # None
        /\ req[p].in.batch[2].UpdateTable[1].Identifier.Name = req[p].in.batch[1].CreateTable[1].Name
        /\ LastCall(p).err = Err({ErrNoSuchTable}, "no such table")
        /\ Len(req[p].tmp.reqs) = 1
        /\ Ident(NsA, NameU) \notin DOMAIN cat.tbl
        /\ NsA \in DOMAIN cat.ns

(***************************************************************************)
(* C27.  A handler that has returned has written one response: a status    *)
(* and at most one body.  Once it has written an error body it makes no    *)
(* further catalog call.                                                   *)
(***************************************************************************)
C27_OneResponse ==
    \A p \in Slots :
        req[p].pc = "done" =>
            /\ resp[p].status # 0
            /\ Len(resp[p].bodies) <= 1

(***************************************************************************)
(* C28.  A CreateTable descriptor of a Transaction batch names the table   *)
(* the CreateTable endpoint names for the same namespace string and table  *)
(* name: the namespace split on the separator 0x1F, one component per      *)
(* level, followed by the table name.                                      *)
(***************************************************************************)
\* the identifier the CreateTable endpoint builds (models.go lines 137, 168)
EndpointIdentifier(ns, name) == Ident(Split(ns), name)

C28_SameIdentifierAsEndpoint ==
    \A p \in Slots :
        (req[p].op = "Transaction" /\ ~req[p].in.bad) =>
            \A j \in DOMAIN req[p].tmp.reqs :
                req[p].tmp.reqs[j].kind = "CreateTable" =>
                    \E i \in DOMAIN req[p].in.batch :
                        /\ req[p].in.batch[i].CreateTable # None
                        /\ req[p].tmp.reqs[j].ident =
                              EndpointIdentifier(req[p].in.batch[i].CreateTable[1].Namespace,
                                                 req[p].in.batch[i].CreateTable[1].Name)

(***************************************************************************)
(* C29.  A Transaction batch with a CreateTable descriptor that has        *)
(* stage-create set is answered as the CreateTable endpoint answers the    *)
(* flag, with 501 and the NotImplemented entry; the batch is not           *)
(* submitted and the catalog is as it was before.                          *)
(***************************************************************************)
\* some CreateTable descriptor of the batch in slot p has stage-create set
StagedInBatch(p) ==
    \E i \in DOMAIN req[p].in.batch :
        /\ req[p].in.batch[i].CreateTable # None
        /\ req[p].in.batch[i].CreateTable[1].StageCreate

C29_StageCreateInBatchRejected ==
    \A p \in Slots :
        (/\ Done(p, "Transaction") /\ ~req[p].in.bad /\ StagedInBatch(p)
         /\ NoBackendFailure(p)) =>
            /\ resp[p] = NotImplementedResponse
            /\ \A i \in DOMAIN calls[p] : calls[p][i].m # "Transaction"
            /\ cat = pre[p]

(***************************************************************************)
(* C30.  The read-only requests (GetConfig, ListNamespaces,                *)
(* LoadNamespaceMetadata, NamespaceExists, ListTables, LoadTable,          *)
(* TableExists, GetKVSidecar) and every request answered with a 4xx        *)
(* status leave the catalog as it was: the namespaces, their properties,   *)
(* the tables, their metadata and the sidecar entries.                     *)
(***************************************************************************)
ReadOnly ==
    {"GetConfig", "ListNamespaces", "LoadNamespaceMetadata", "NamespaceExists",
     "ListTables", "LoadTable", "TableExists", "GetKVSidecar"}

=============================================================================
